---- MODULE Spec2Model ----
(***************************************************************************)
(* Think-tag and tool-call normalisation of RATDEO/lammastudio:            *)
(*   - ToolCallHandler (src/config/tool_call_handler.py), the LiteLLM      *)
(*     callback: the complete-mode hooks and the streaming deployment      *)
(*     hook;                                                               *)
(*   - tabby_proxy (src/scripts/tabby_proxy.py): transform_response and    *)
(*     the per-event body of proxy.stream_generator.                       *)
(*                                                                         *)
(* A text is a sequence of one-character strings, so every regular         *)
(* expression of the source is modelled on characters, and a stream        *)
(* fragment may end anywhere, also inside a marker.  Python's None is the  *)
(* value None below, which is no text.                                     *)
(***************************************************************************)
EXTENDS Integers, Sequences, FiniteSets, TLC

\* ------------------------------------------------------------------------
\* Python str primitives
\* ------------------------------------------------------------------------

\* Python None: a one-element sequence whose element is no character.
None == <<"None">>

\* The characters str.strip() and the regex class \s take as whitespace.
IsSpace(c) == c \in {" ", "\n", "\t", "\r"}

\* The regex class \w.
IsWord(c) ==
  c \in {"a", "b", "c", "d", "e", "f", "g", "h", "i", "j", "k", "l", "m",
         "n", "o", "p", "q", "r", "s", "t", "u", "v", "w", "x", "y", "z",
         "0", "1", "2", "3", "4", "5", "6", "7", "8", "9", "_"}

\* The regex class [a-z].
IsLower(c) ==
  c \in {"a", "b", "c", "d", "e", "f", "g", "h", "i", "j", "k", "l", "m",
         "n", "o", "p", "q", "r", "s", "t", "u", "v", "w", "x", "y", "z"}

\* The regex class \d.
IsDigit(c) == c \in {"0", "1", "2", "3", "4", "5", "6", "7", "8", "9"}

\* The least and the greatest element of a set of positions, d when empty.
MinOr(S, d) == IF S = {} THEN d ELSE CHOOSE k \in S : \A j \in S : k <= j
MaxOr(S, d) == IF S = {} THEN d ELSE CHOOSE k \in S : \A j \in S : k >= j

\* s[i], or "" past either end.
At(s, i) == IF i >= 1 /\ i <= Len(s) THEN s[i] ELSE ""

\* s[i:] with a 1-based i.
From(s, i) == SubSeq(s, i, Len(s))

\* p occurs in s at the 1-based position i.
StartsAt(s, p, i) ==
  /\ i >= 1
  /\ i + Len(p) - 1 <= Len(s)
  /\ \A k \in 1..Len(p) : s[i + k - 1] = p[k]

\* str.find(p, i): the least position >= i where p occurs in s, 0 when none.
Find(s, p, i) == MinOr({k \in i..(Len(s) - Len(p) + 1) : StartsAt(s, p, k)}, 0)

\* p in s.
Contains(s, p) == Find(s, p, 1) # 0

\* s.startswith(p), s.endswith(p).
StartsWith(s, p) == StartsAt(s, p, 1)
EndsWith(s, p) == StartsAt(s, p, Len(s) - Len(p) + 1)

\* The least position >= i of s whose character is not whitespace, Len(s)+1
\* when there is none: where a regex \s* that starts at i ends.
SkipWs(s, i) == MinOr({k \in i..Len(s) : ~IsSpace(s[k])}, Len(s) + 1)

\* str.strip() and str.rstrip().
Strip(s) ==
  SubSeq(s, MinOr({k \in 1..Len(s) : ~IsSpace(s[k])}, Len(s) + 1),
            MaxOr({k \in 1..Len(s) : ~IsSpace(s[k])}, 0))
RStrip(s) == SubSeq(s, 1, MaxOr({k \in 1..Len(s) : ~IsSpace(s[k])}, 0))

\* Python truth of an optional string: None and "" are false.
Truthy(s) == s # None /\ s # <<>>

RECURSIVE ReplaceAll(_, _, _, _)

\* s.replace(old, new) from position i on.
ReplaceAll(s, old, new, i) ==
  IF Find(s, old, i) = 0 THEN From(s, i)
  ELSE SubSeq(s, i, Find(s, old, i) - 1) \o new
       \o ReplaceAll(s, old, new, Find(s, old, i) + Len(old))

\* ------------------------------------------------------------------------
\* Markers of the source
\* ------------------------------------------------------------------------

THINK_OPEN == <<"<", "t", "h", "i", "n", "k", ">">>
THINK_CLOSE == <<"<", "/", "t", "h", "i", "n", "k", ">">>
TOOL_OPEN == <<"<", "t", "o", "o", "l", "_", "c", "a", "l", "l", ">">>
TOOL_CLOSE == <<"<", "/", "t", "o", "o", "l", "_", "c", "a", "l", "l", ">">>
FUNCTION_CALLS ==
  <<"<", "f", "u", "n", "c", "t", "i", "o", "n", "_", "c", "a", "l", "l", "s", ">">>
NAME_KEY == <<"n", "a", "m", "e">>
ARGUMENTS_KEY == <<"a", "r", "g", "u", "m", "e", "n", "t", "s">>
QUOTED_NAME == <<"\"">> \o NAME_KEY \o <<"\"">>
QUOTED_ARGUMENTS == <<"\"">> \o ARGUMENTS_KEY \o <<"\"">>

\* ------------------------------------------------------------------------
\* json.loads / json.dumps
\*
\* A JSON value is [t |-> "obj", v |-> <<<<key, value>>, ...>>] (a dict in
\* insertion order), [t |-> "str", v |-> characters] or [t |-> "int",
\* v |-> digits].  The texts of this model hold no backslash, bracket,
\* sign, point or JSON literal, so objects, strings and whole numbers are
\* all of the grammar of json.loads that they can reach.
\* ------------------------------------------------------------------------

JObj(members) == [t |-> "obj", v |-> members]
JStr(chars) == [t |-> "str", v |-> chars]
JInt(digits) == [t |-> "int", v |-> digits]

\* A parse step: ok, the value, and the position after it.
JFail == [ok |-> FALSE, val |-> JObj(<<>>), pos |-> 0]
JOk(val, pos) == [ok |-> TRUE, val |-> val, pos |-> pos]

\* dict[key] = val: replaces the value of a key already there, else appends.
DictSet(members, key, val) ==
  IF \E k \in 1..Len(members) : members[k][1] = key
  THEN [k \in 1..Len(members) |->
          IF members[k][1] = key THEN <<key, val>> ELSE members[k]]
  ELSE Append(members, <<key, val>>)

\* dict.get(key, default).
DictGet(obj, key, default) ==
  IF \E k \in 1..Len(obj.v) : obj.v[k][1] = key
  THEN obj.v[CHOOSE k \in 1..Len(obj.v) : obj.v[k][1] = key][2]
  ELSE default

\* A JSON string that opens at s[i]: up to the next quote, no backslash
\* in between.
ParseString(s, i) ==
  LET To(q) ==
        IF At(s, i) # "\"" \/ q = 0 \/ \E k \in (i + 1)..(q - 1) : s[k] = "\\"
        THEN JFail
        ELSE JOk(JStr(SubSeq(s, i + 1, q - 1)), q + 1)
  IN To(Find(s, <<"\"">>, i + 1))

\* A JSON number that opens at s[i]: 0, or a digit run with no leading 0.
ParseInt(s, i) ==
  LET To(e) ==
        IF ~IsDigit(At(s, i)) THEN JFail
        ELSE IF s[i] = "0" THEN JOk(JInt(<<"0">>), i + 1)
        ELSE JOk(JInt(SubSeq(s, i, e - 1)), e)
  IN To(MinOr({k \in i..Len(s) : ~IsDigit(s[k])}, Len(s) + 1))

RECURSIVE ParseValue(_, _), ParseMembers(_, _, _)

\* The value that opens at s[i] (json.scanner's scan_once): a string, an
\* object (empty, or its members from the first key on) or a number.
ParseValue(s, i) ==
  IF At(s, i) = "\"" THEN ParseString(s, i)
  ELSE IF At(s, i) # "{" THEN ParseInt(s, i)
  ELSE IF At(s, SkipWs(s, i + 1)) = "}" THEN JOk(JObj(<<>>), SkipWs(s, i + 1) + 1)
  ELSE ParseMembers(s, SkipWs(s, i + 1), <<>>)

\* The members of an object from the key that opens at s[j] (JSONObject):
\* the key, the colon, the value, then a "}" that ends the object or a
\* "," that brings the next key.
ParseMembers(s, j, acc) ==
  LET End(members, sep) ==
        IF At(s, sep) = "}" THEN JOk(JObj(members), sep + 1)
        ELSE IF At(s, sep) = "," THEN ParseMembers(s, SkipWs(s, sep + 1), members)
        ELSE JFail
      Value(key, val) ==
        IF ~val.ok THEN JFail
        ELSE End(DictSet(acc, key, val.val), SkipWs(s, val.pos))
      Colon(key) ==
        IF ~key.ok \/ At(s, SkipWs(s, key.pos)) # ":" THEN JFail
        ELSE Value(key.val.v, ParseValue(s, SkipWs(s, SkipWs(s, key.pos) + 1)))
  IN Colon(ParseString(s, j))

\* json.loads(s): ok is FALSE where Python raises JSONDecodeError; the
\* value must be all of the text.
Loads(s) ==
  LET All(r) == IF r.ok /\ SkipWs(s, r.pos) = Len(s) + 1 THEN r ELSE JFail
  IN All(ParseValue(s, SkipWs(s, 1)))

RECURSIVE Dumps(_), DumpsMembers(_, _)

\* json.dumps(v) with the default separators ", " and ": ".
Dumps(v) ==
  IF v.t = "obj" THEN <<"{">> \o DumpsMembers(v.v, 1) \o <<"}">>
  ELSE IF v.t = "str" THEN <<"\"">> \o v.v \o <<"\"">>
  ELSE v.v

DumpsMembers(members, k) ==
  IF k > Len(members) THEN <<>>
  ELSE (IF k > 1 THEN <<",", " ">> ELSE <<>>)
       \o <<"\"">> \o members[k][1] \o <<"\"", ":", " ">>
       \o Dumps(members[k][2]) \o DumpsMembers(members, k + 1)

\* Python truth of a JSON value: {}, "" and 0 are false.
JTruthy(v) == IF v.t = "int" THEN v.v # <<"0">> ELSE Len(v.v) # 0

\* A name or an argument value as the text Python stores for it.
TextOf(v) == IF v.t = "obj" THEN Dumps(v) ELSE v.v

\* The arguments string of an invocation, in both sources:
\* json.dumps(arguments) if isinstance(arguments, dict) else str(arguments).
ArgumentsString(v) == IF v.t = "obj" THEN Dumps(v) ELSE v.v

\* ------------------------------------------------------------------------
\* The regular expressions of the source
\*
\* A match is [ok, start, end, g1, g2]: start is its first position, end
\* the position after its last, g1 and g2 its groups.  Every pattern of
\* the source begins with a literal, its opener, so a scan tries the
\* pattern at each occurrence of the opener, left to right, and goes on
\* after a match, as re.findall, re.sub and re.search do.
\* ------------------------------------------------------------------------

NoMatch == [ok |-> FALSE, start |-> 0, end |-> 0, g1 |-> <<>>, g2 |-> <<>>]
Match(start, end, g1, g2) ==
  [ok |-> TRUE, start |-> start, end |-> end, g1 |-> g1, g2 |-> g2]

\* The literal p at position i, then \s*: the position after both, 0 when
\* the literal is not there (or i is already 0).
Lit(s, p, i) == IF i > 0 /\ StartsAt(s, p, i) THEN SkipWs(s, i + Len(p)) ELSE 0

\* open(.*?)close with re.DOTALL (or [\s\S]*?) at the open at o: the group
\* runs to the first close.
BetweenAt(s, open, close, o) ==
  LET To(c) == IF c = 0 THEN NoMatch
               ELSE Match(o, c + Len(close), SubSeq(s, o + Len(open), c - 1), <<>>)
  IN To(Find(s, close, o + Len(open)))

\* pattern3 = <tool_call>(\{.*?\})(?:\s*$|(?=<)) at the <tool_call> at o
\* (tool_call_handler.py line 116): group 1 runs from the "{" after the
\* tag to the first "}" that is followed by whitespace up to the end of
\* the text, or by a "<".
Pattern3At(s, o) ==
  LET b == o + Len(TOOL_OPEN)
      To(e) == IF At(s, b) # "{" \/ e = 0 THEN NoMatch
               ELSE Match(o, IF At(s, e + 1) = "<" THEN e + 1 ELSE Len(s) + 1,
                          SubSeq(s, b, e), <<>>)
  IN To(MinOr({e \in (b + 1)..Len(s) :
                 /\ s[e] = "}"
                 /\ \/ SkipWs(s, e + 1) = Len(s) + 1
                    \/ At(s, e + 1) = "<"}, 0))

\* raw_json_pattern =
\*   \{"name"\s*:\s*"([^"]+)"\s*,\s*"arguments"\s*:\s*(\{[^}]+\})\}
\* at the {"name" at o (line 121): g1 the name, g2 the arguments object.
RawJsonAt(s, o) ==
  LET End(name, b1, b2) ==
        IF b2 > b1 + 1 /\ At(s, b2 + 1) = "}"
        THEN Match(o, b2 + 2, name, SubSeq(s, b1, b2)) ELSE NoMatch
      Body(name, b1) ==
        IF At(s, b1) # "{" THEN NoMatch
        ELSE End(name, b1, Find(s, <<"}">>, b1 + 1))
      Comma(q1, q2) ==
        IF q2 <= q1 + 1 THEN NoMatch
        ELSE Body(SubSeq(s, q1 + 1, q2 - 1),
                  Lit(s, <<":">>, Lit(s, QUOTED_ARGUMENTS,
                                      Lit(s, <<",">>, SkipWs(s, q2 + 1)))))
      Name(q1) ==
        IF At(s, q1) # "\"" THEN NoMatch
        ELSE Comma(q1, Find(s, <<"\"">>, q1 + 1))
  IN Name(Lit(s, <<":">>, Lit(s, <<"{">> \o QUOTED_NAME, o)))

\* \{[^{}]*\} at the "{" at o (line 142): the next brace must be a "}".
FlatBracesAt(s, o) ==
  LET To(e) == IF At(s, e) = "}" THEN Match(o, e + 1, SubSeq(s, o, e), <<>>)
               ELSE NoMatch
  IN To(MinOr({k \in (o + 1)..Len(s) : s[k] \in {"{", "}"}}, 0))

\* arg_pattern = <([^/>]+)>(.*?)</\1> with re.DOTALL at the "<" at o
\* (tabby_proxy.py line 46): the key runs to the first "/" or ">", which
\* must be a ">"; the value runs to the first </key>.
ArgAt(s, o) ==
  LET To(g, close, c) ==
        IF c = 0 THEN NoMatch
        ELSE Match(o, c + Len(close), SubSeq(s, o + 1, g - 1), SubSeq(s, g + 1, c - 1))
      Key(g) ==
        IF g <= o + 1 \/ At(s, g) # ">" THEN NoMatch
        ELSE To(g, <<"<", "/">> \o SubSeq(s, o + 1, g - 1) \o <<">">>,
                Find(s, <<"<", "/">> \o SubSeq(s, o + 1, g - 1) \o <<">">>, g + 1))
  IN Key(MinOr({k \in (o + 1)..Len(s) : s[k] \in {"/", ">"}}, 0))

\* <tool_call>[\s\S]*?(?=<[a-z]|$) at the <tool_call> at o (line 97): up
\* to the next "<" that a lower-case letter follows, or to the end of the
\* text ($ also stands before a final "\n").
UnclosedAt(s, o) ==
  Match(o, MinOr({p \in (o + Len(TOOL_OPEN))..Len(s) :
                    \/ (p = Len(s) /\ s[p] = "\n")
                    \/ (s[p] = "<" /\ IsLower(At(s, p + 1)))}, Len(s) + 1),
        <<>>, <<>>)

\* <tool_call>[^<]*$ at the <tool_call> at o (line 100): no "<" may follow.
OpeningAt(s, o) ==
  IF \E k \in (o + Len(TOOL_OPEN))..Len(s) : s[k] = "<" THEN NoMatch
  ELSE Match(o, Len(s) + 1, <<>>, <<>>)

\* xml_pattern = <tool_call>\s*(\w+)\s*([\s\S]*?)\s*</tool_call> at the
\* <tool_call> at o (lines 113-116): the name is the whole run of word
\* characters after the tag, the arguments run to the first </tool_call>,
\* without the whitespace around them.
XmlAt(s, o) ==
  LET To(a, w, c) ==
        IF w = a \/ c = 0 THEN NoMatch
        ELSE Match(o, c + Len(TOOL_CLOSE), SubSeq(s, a, w - 1),
                   RStrip(SubSeq(s, SkipWs(s, w), c - 1)))
      Word(a, w) == To(a, w, Find(s, TOOL_CLOSE, SkipWs(s, w)))
      Name(a) == Word(a, MinOr({k \in a..Len(s) : ~IsWord(s[k])}, Len(s) + 1))
  IN Name(SkipWs(s, o + Len(TOOL_OPEN)))

\* json_unclosed_pattern = <tool_call>\s*(\{[^<]*\})\s*(?:</tool_call>)?
\* at the <tool_call> at o (lines 125-128): group 1 runs from the "{" to
\* the last "}" before the next "<".
JsonUnclosedAt(s, o) ==
  LET After(w) == IF StartsAt(s, TOOL_CLOSE, w) THEN w + Len(TOOL_CLOSE) ELSE w
      To(a, e) == IF At(s, a) # "{" \/ e = 0 THEN NoMatch
                  ELSE Match(o, After(SkipWs(s, e + 1)), SubSeq(s, a, e), <<>>)
      Braces(a, lt) == To(a, MaxOr({k \in (a + 1)..(lt - 1) : s[k] = "}"}, 0))
      Open(a) == Braces(a, MinOr({k \in a..Len(s) : s[k] = "<"}, Len(s) + 1))
  IN Open(SkipWs(s, o + Len(TOOL_OPEN)))

\* The literal each pattern begins with.
Opener(pattern) ==
  CASE pattern = "raw_json_pattern" -> <<"{">> \o QUOTED_NAME
    [] pattern = "flat_braces" -> <<"{">>
    [] pattern = "arg_pattern" -> <<"<">>
    [] pattern = "think_pattern" -> THINK_OPEN
    [] OTHER -> TOOL_OPEN

\* The match of a pattern at the occurrence of its opener at o.
MatchAt(pattern, s, o) ==
  CASE pattern = "pattern1" -> BetweenAt(s, TOOL_OPEN, TOOL_CLOSE, o)
    [] pattern = "pattern2" -> BetweenAt(s, TOOL_OPEN, THINK_CLOSE, o)
    [] pattern = "pattern3" -> Pattern3At(s, o)
    [] pattern = "raw_json_pattern" -> RawJsonAt(s, o)
    [] pattern = "flat_braces" -> FlatBracesAt(s, o)
    [] pattern = "arg_pattern" -> ArgAt(s, o)
    [] pattern = "think_pattern" -> BetweenAt(s, THINK_OPEN, THINK_CLOSE, o)
    [] pattern = "closed_tags" -> BetweenAt(s, TOOL_OPEN, TOOL_CLOSE, o)
    [] pattern = "unclosed_tags" -> UnclosedAt(s, o)
    [] pattern = "opening_tags" -> OpeningAt(s, o)
    [] pattern = "xml_pattern" -> XmlAt(s, o)
    [] pattern = "json_unclosed_pattern" -> JsonUnclosedAt(s, o)

RECURSIVE AllMatches(_, _, _)

\* The matches of a pattern in s from position i on, left to right, not
\* overlapping: what re.findall and re.sub go through.  The pattern is
\* tried at the next occurrence o of its opener; the scan goes on after
\* the match, or at o + 1 when there is none.
AllMatches(pattern, s, i) ==
  LET After(o, m) ==
        IF m.ok THEN <<m>> \o AllMatches(pattern, s, m.end)
        ELSE AllMatches(pattern, s, o + 1)
      At0(o) == IF o = 0 THEN <<>> ELSE After(o, MatchAt(pattern, s, o))
  IN At0(Find(s, Opener(pattern), i))

RECURSIVE KeepOutside(_, _, _, _)

\* re.sub(pattern, '', s): s without its matches ms, from the k-th match
\* and position pos on.
KeepOutside(s, ms, k, pos) ==
  IF k > Len(ms) THEN From(s, pos)
  ELSE SubSeq(s, pos, ms[k].start - 1) \o KeepOutside(s, ms, k + 1, ms[k].end)

\* re.sub(pattern, '', s).
Sub(pattern, s) == KeepOutside(s, AllMatches(pattern, s, 1), 1, 1)

\* ------------------------------------------------------------------------
\* ToolCallHandler (src/config/tool_call_handler.py): pure functions
\* ------------------------------------------------------------------------

\* THINK_PATTERN.match(content), THINK_PATTERN =
\* ^(?:<think>)?(.*?)</think>(.*)$ with re.DOTALL: [ok, g1, g2].  An
\* opening marker at the start is skipped when a closing one follows it;
\* group 1 runs to the first closing marker, group 2 is all the rest.
ThinkPatternMatch(content) ==
  LET Split(start, close) ==
        IF close = 0 THEN [ok |-> FALSE, g1 |-> <<>>, g2 |-> <<>>]
        ELSE [ok |-> TRUE, g1 |-> SubSeq(content, start, close - 1),
              g2 |-> From(content, close + Len(THINK_CLOSE))]
  IN IF /\ StartsWith(content, THINK_OPEN)
        /\ Find(content, THINK_CLOSE, Len(THINK_OPEN) + 1) # 0
     THEN Split(Len(THINK_OPEN) + 1, Find(content, THINK_CLOSE, Len(THINK_OPEN) + 1))
     ELSE Split(1, Find(content, THINK_CLOSE, 1))

\* ToolCallHandler._parse_think_tags: <<reasoning, main_content>>.
ParseThinkTags(content) ==
  LET Result(m) == IF m.ok THEN <<Strip(m.g1), Strip(m.g2)>> ELSE <<None, content>>
  IN IF content = <<>> THEN <<None, content>>
     ELSE Result(ThinkPatternMatch(content))

\* An invocation as both sources build it.
ToolCall(id, name, arguments) ==
  [id |-> id, type |-> "function", name |-> name, arguments |-> arguments]

\* f"call_{uuid.uuid4().hex[:9]}" for the k-th invocation of a response:
\* uuid4 draws are taken to be fresh, so the k-th draw is named by k.
UuidCallId(k) == <<"call_uuid", k>>

\* The members of a dict other than "name":
\* {k: v for k, v in tool_data.items() if k != "name"}.
WithoutName(obj) == JObj(SelectSeq(obj.v, LAMBDA kv : kv[1] # NAME_KEY))

\* No invocation, and the invocation a loop body accepts.
NoCall == [ok |-> FALSE, name |-> <<>>, arguments |-> <<>>]
Call(name, arguments) == [ok |-> TRUE, name |-> name, arguments |-> arguments]

\* The body of the loop over raw_matches (pattern 4, lines 123-135).
RawJsonCall(m) ==
  LET Parsed(arguments) ==
        IF arguments.ok THEN Call(m.g1, Dumps(arguments.val)) ELSE NoCall
  IN Parsed(Loads(m.g2))

\* json_str of the loop over matches (lines 141-144): the stripped match,
\* or its first flat {...} when re.search finds one.
FirstFlatBraces(json_str) ==
  LET Found(ms) == IF ms = <<>> THEN json_str ELSE ms[1].g1
  IN Found(AllMatches("flat_braces", json_str, 1))

\* The body of the loop over matches (lines 140-163): a body that does not
\* parse, or parses to a non-dict (AttributeError on .get), or has no
\* truthy name, gives no invocation.
BodyCall(m) ==
  LET Named(tool_data, function_name, arguments) ==
        IF ~JTruthy(function_name) THEN NoCall
        ELSE Call(TextOf(function_name),
                  ArgumentsString(IF JTruthy(arguments) THEN arguments
                                  ELSE WithoutName(tool_data)))
      Data(tool_data) ==
        IF ~tool_data.ok \/ tool_data.val.t # "obj" THEN NoCall
        ELSE Named(tool_data.val,
                   DictGet(tool_data.val, NAME_KEY, JStr(<<>>)),
                   DictGet(tool_data.val, ARGUMENTS_KEY, JObj(<<>>)))
  IN Data(Loads(FirstFlatBraces(Strip(m.g1))))

RECURSIVE NumberCalls(_, _, _)

\* The invocations of the accepted candidates, in order, the k-th with
\* the k-th uuid.
NumberCalls(cands, i, k) ==
  IF i > Len(cands) THEN <<>>
  ELSE IF cands[i].ok
  THEN <<ToolCall(UuidCallId(k), cands[i].name, cands[i].arguments)>>
       \o NumberCalls(cands, i + 1, k + 1)
  ELSE NumberCalls(cands, i + 1, k)

\* matches of _parse_tool_calls (lines 105-117): pattern1, else pattern2,
\* else pattern3, the later two only when the text holds a <tool_call>.
HandlerMatches(content) ==
  LET Or(matches, pattern) ==
        IF matches = <<>> /\ Contains(content, TOOL_OPEN)
        THEN AllMatches(pattern, content, 1) ELSE matches
  IN Or(Or(AllMatches("pattern1", content, 1), "pattern2"), "pattern3")

\* ToolCallHandler._parse_tool_calls.
ParseToolCalls(content0) ==
  LET Body(matches) ==
        NumberCalls([k \in 1..Len(matches) |-> BodyCall(matches[k])], 1, 1)
      Raw(matches, raw_matches) ==
        IF matches = <<>>
        THEN NumberCalls([k \in 1..Len(raw_matches) |-> RawJsonCall(raw_matches[k])], 1, 1)
        ELSE Body(matches)
      Stripped(content) ==
        Raw(HandlerMatches(content), AllMatches("raw_json_pattern", content, 1))
  IN Stripped(Strip(content0))

\* ------------------------------------------------------------------------
\* tabby_proxy (src/scripts/tabby_proxy.py): pure functions
\* ------------------------------------------------------------------------

\* The printable ASCII characters in code order, from the space (32) on;
\* the grave accent (96), which no text of the model holds, is spelled out.
Ascii ==
  <<" ", "!", "\"", "#", "$", "%", "&", "'", "(", ")", "*", "+", ",", "-",
    ".", "/", "0", "1", "2", "3", "4", "5", "6", "7", "8", "9", ":", ";",
    "<", "=", ">", "?", "@", "A", "B", "C", "D", "E", "F", "G", "H", "I",
    "J", "K", "L", "M", "N", "O", "P", "Q", "R", "S", "T", "U", "V", "W",
    "X", "Y", "Z", "[", "\\", "]", "^", "_", "(grave)", "a", "b", "c", "d", "e",
    "f", "g", "h", "i", "j", "k", "l", "m", "n", "o", "p", "q", "r", "s",
    "t", "u", "v", "w", "x", "y", "z", "{", "|", "}", "~">>

\* ord(c).
Ord(c) ==
  IF c = "\n" THEN 10
  ELSE IF c = "\t" THEN 9
  ELSE IF c = "\r" THEN 13
  ELSE 31 + CHOOSE k \in 1..Len(Ascii) : Ascii[k] = c

\* 2^16: a 32-bit word h is kept as <<h \div Half, h % Half>>.
Half == 65536

\* One round of hash_string on the unsigned word h:
\* ((h << 5) - h + ord(c)) & 0xFFFFFFFF, which is (31 * h + ord(c)) mod 2^32.
\* The source's step to the signed value does not change the word.
HashStep(h, c) ==
  <<(31 * h[1] + ((31 * h[2] + Ord(c)) \div Half)) % Half,
    (31 * h[2] + Ord(c)) % Half>>

RECURSIVE HashWord(_, _, _)

\* The word of hash_string's loop over s from position i on; the word of
\* a round is computed before the loop goes on with it.
HashWord(s, i, h) ==
  LET Round(next) == IF next[1] >= 0 THEN HashWord(s, i + 1, next) ELSE next
  IN IF i > Len(s) THEN h ELSE Round(HashStep(h, s[i]))

\* abs() of the signed reading of the word h.
AbsWord(h) ==
  IF h[1] < Half \div 2 THEN h
  ELSE IF h[2] = 0 THEN <<Half - h[1], 0>>
  ELSE <<Half - 1 - h[1], Half - h[2]>>

\* hash_string(s): f"call_{abs(h)}", the number kept as its two halves.
hash_string(s) == <<"call_">> \o AbsWord(HashWord(s, 1, <<0, 0>>))

\* The value of one argument (lines 50-64): stripped, a b'...' or b"..."
\* wrapper taken off, \" unescaped, then json.loads, or the text itself
\* when that fails.
ArgValue(value) ==
  LET Parsed(processed_value, parsed) ==
        IF parsed.ok THEN parsed.val ELSE JStr(processed_value)
      Unescaped(processed_value) == Parsed(processed_value, Loads(processed_value))
      Stripped(processed_value) ==
        Unescaped(ReplaceAll(
          IF \/ /\ StartsWith(processed_value, <<"b", "'">>)
                /\ EndsWith(processed_value, <<"'">>)
             \/ /\ StartsWith(processed_value, <<"b", "\"">>)
                /\ EndsWith(processed_value, <<"\"">>)
          THEN SubSeq(processed_value, 3, Len(processed_value) - 1)
          ELSE processed_value,
          <<"\\", "\"">>, <<"\"">>, 1))
  IN Stripped(Strip(value))

RECURSIVE ArgsDict(_, _, _)

\* The loop of parse_args_section over the matches of arg_pattern.
ArgsDict(matches, k, args) ==
  IF k > Len(matches) THEN args
  ELSE ArgsDict(matches, k + 1, DictSet(args, matches[k].g1, ArgValue(matches[k].g2)))

\* parse_args_section: the dict of the <key>value</key> arguments.
parse_args_section(args_section) ==
  JObj(ArgsDict(AllMatches("arg_pattern", args_section, 1), 1, <<>>))

RECURSIVE JoinStripped(_, _)

\* "\n".join(m.strip() for m in think_matches) from the k-th match on.
JoinStripped(matches, k) ==
  IF k > Len(matches) THEN <<>>
  ELSE (IF k > 1 THEN <<"\n">> ELSE <<>>) \o Strip(matches[k].g1)
       \o JoinStripped(matches, k + 1)

\* extract_think_content: <<reasoning_content, remaining>>.
extract_think_content(content) ==
  LET Found(think_matches) ==
        IF think_matches # <<>>
        THEN <<JoinStripped(think_matches, 1),
               Strip(KeepOutside(content, think_matches, 1, 1))>>
        ELSE <<None, content>>
  IN IF content = None \/ content = <<>> THEN <<None, <<>>>>
     ELSE Found(AllMatches("think_pattern", content, 1))

\* clean_tool_call_tags.
clean_tool_call_tags(content) ==
  IF content = None \/ content = <<>> THEN content
  ELSE Strip(Sub("opening_tags", Sub("unclosed_tags", Sub("closed_tags", content))))

\* The invocation of one xml_pattern match (lines 136-150): the id is the
\* hash of the span rebuilt as f"<tool_call>{tool_name} {args_content}</tool_call>".
XmlCall(m) ==
  ToolCall(hash_string(TOOL_OPEN \o Strip(m.g1) \o <<" ">> \o m.g2 \o TOOL_CLOSE),
           Strip(m.g1), Dumps(parse_args_section(m.g2)))

\* The body of the loop over json_matches (lines 157-173): a body that
\* does not parse or has no truthy name is skipped; the id is the hash of
\* the body.
JsonCall(json_str) ==
  LET Named(fn_name, arguments) ==
        IF JTruthy(fn_name)
        THEN <<ToolCall(hash_string(json_str), TextOf(fn_name), ArgumentsString(arguments))>>
        ELSE <<>>
      Data(data) ==
        IF ~data.ok THEN <<>>
        ELSE Named(DictGet(data.val, NAME_KEY, JStr(<<>>)),
                   DictGet(data.val, ARGUMENTS_KEY, JObj(<<>>)))
  IN Data(Loads(json_str))

RECURSIVE JsonCalls(_, _)

\* The loop over json_matches from the k-th match on.
JsonCalls(json_matches, k) ==
  IF k > Len(json_matches) THEN <<>>
  ELSE JsonCall(json_matches[k].g1) \o JsonCalls(json_matches, k + 1)

\* extract_tool_calls: <<tool_calls, modified>>.
extract_tool_calls(content) ==
  LET Json(xml_matches, modified, json_matches) ==
        <<[k \in 1..Len(xml_matches) |-> XmlCall(xml_matches[k])]
          \o JsonCalls(json_matches, 1),
          Strip(clean_tool_call_tags(KeepOutside(modified, json_matches, 1, 1)))>>
      Xml(xml_matches, modified) ==
        Json(xml_matches, modified, AllMatches("json_unclosed_pattern", modified, 1))
      Scan(xml_matches) == Xml(xml_matches, KeepOutside(content, xml_matches, 1, 1))
  IN IF content = None \/ content = <<>> THEN <<<<>>, <<>>>>
     ELSE Scan(AllMatches("xml_pattern", content, 1))

\* ------------------------------------------------------------------------
\* Complete mode: one message of one choice
\*
\* A message is [content, reasoning_content, tool_calls, finish_reason]:
\* content and reasoning_content are texts or None, tool_calls is the list
\* of invocations (<<>> when the field is absent or None), finish_reason
\* is the choice's.
\* ------------------------------------------------------------------------

\* A message or delta without a content field.
Missing == <<"Missing">>

\* A chunk whose choice has delta None, and a content that is no string
\* (a number, say): values the upstream is not expected to send.
NoDelta == <<"NoDelta">>
NotAString == <<"NotAString">>

\* getattr(message, 'content', '') or '' / message.get("content", "") or "".
ContentOrEmpty(content) == IF content = None \/ content = Missing THEN <<>> ELSE content

\* The test of ToolCallHandler.async_post_call_success_hook that lets the
\* content go to _parse_tool_calls (line 207).
LooksLikeToolCall(content) ==
  \/ Contains(content, TOOL_OPEN)
  \/ Contains(content, FUNCTION_CALLS)
  \/ (StartsWith(Strip(content), <<"{">>) /\ Contains(content, QUOTED_NAME))

\* The think-tag step of both ToolCallHandler post-call hooks (lines
\* 180-197 and 235-245): content and reasoning_content change only when
\* the reasoning is not empty.
HandlerThinkStep(m) ==
  LET Parsed(parsed) ==
        IF Truthy(parsed[1])
        THEN [m EXCEPT !.content = parsed[2], !.reasoning_content = parsed[1]]
        ELSE m
  IN IF Contains(ContentOrEmpty(m.content), THINK_CLOSE)
     THEN Parsed(ParseThinkTags(ContentOrEmpty(m.content)))
     ELSE m

\* The tool-call step of async_post_call_success_hook (lines 199-213).
HandlerToolStep(m) ==
  LET Parsed(parsed_tool_calls) ==
        IF parsed_tool_calls # <<>>
        THEN [m EXCEPT !.tool_calls = parsed_tool_calls, !.finish_reason = "tool_calls"]
        ELSE m
  IN IF m.tool_calls # <<>> THEN m
     ELSE IF LooksLikeToolCall(ContentOrEmpty(m.content))
     THEN Parsed(ParseToolCalls(ContentOrEmpty(m.content)))
     ELSE m

\* ToolCallHandler.async_post_call_success_hook on the first choice;
\* nothing is done to a response without choices (line 172).
async_post_call_success_hook(m) ==
  IF m.choices THEN HandlerToolStep(HandlerThinkStep(m)) ELSE m

\* ToolCallHandler.async_post_call_success_deployment_hook (line 230).
async_post_call_success_deployment_hook(m) ==
  IF m.choices THEN HandlerThinkStep(m) ELSE m

\* transform_response with reasoning_content assigned on every run, without
\* the test of line 192: a run that finds no think block clears the field.
TransformResponseAssigningReasoning(m) ==
  LET Done(reasoning_content, new_tool_calls, content) ==
        [choices |-> TRUE,
         content |-> IF content # <<>> THEN content ELSE None,
         reasoning_content |-> reasoning_content,
         tool_calls |-> IF m.tool_calls = <<>> /\ new_tool_calls # <<>>
                        THEN new_tool_calls ELSE m.tool_calls,
         finish_reason |-> IF m.tool_calls = <<>> /\ new_tool_calls # <<>>
                           THEN "tool_calls" ELSE m.finish_reason]
      Extracted(reasoning_content, extracted) ==
        Done(reasoning_content, extracted[1], extracted[2])
      Think(think) ==
        IF Contains(think[2], TOOL_OPEN)
        THEN Extracted(think[1], extract_tool_calls(think[2]))
        ELSE Done(think[1], <<>>, clean_tool_call_tags(think[2]))
  IN IF m.choices THEN Think(extract_think_content(ContentOrEmpty(m.content))) ELSE m

\* transform_response, were it to put its own invocations in place of the
\* ones the message came with.
TransformResponseReplacing(m) ==
  LET Done(reasoning_content, new_tool_calls, content) ==
        [choices |-> TRUE,
         content |-> IF content # <<>> THEN content ELSE None,
         reasoning_content |-> IF Truthy(reasoning_content) THEN reasoning_content
                               ELSE m.reasoning_content,
         tool_calls |-> IF new_tool_calls # <<>>
                        THEN new_tool_calls ELSE m.tool_calls,
         finish_reason |-> IF new_tool_calls # <<>>
                           THEN "tool_calls" ELSE m.finish_reason]
      Extracted(reasoning_content, extracted) ==
        Done(reasoning_content, extracted[1], extracted[2])
      Think(think) ==
        IF Contains(think[2], TOOL_OPEN)
        THEN Extracted(think[1], extract_tool_calls(think[2]))
        ELSE Done(think[1], <<>>, clean_tool_call_tags(think[2]))
  IN IF m.choices THEN Think(extract_think_content(ContentOrEmpty(m.content))) ELSE m

\* tabby_proxy.transform_response on one choice; a response without
\* choices is returned as it is (line 183).
transform_response(m) ==
  LET Done(reasoning_content, new_tool_calls, content) ==
        [choices |-> TRUE,
         content |-> IF content # <<>> THEN content ELSE None,
         reasoning_content |-> IF Truthy(reasoning_content) THEN reasoning_content
                               ELSE m.reasoning_content,
         tool_calls |-> IF m.tool_calls = <<>> /\ new_tool_calls # <<>>
                        THEN new_tool_calls ELSE m.tool_calls,
         finish_reason |-> IF m.tool_calls = <<>> /\ new_tool_calls # <<>>
                           THEN "tool_calls" ELSE m.finish_reason]
      Extracted(reasoning_content, extracted) ==
        Done(reasoning_content, extracted[1], extracted[2])
      Think(think) ==
        IF Contains(think[2], TOOL_OPEN)
        THEN Extracted(think[1], extract_tool_calls(think[2]))
        ELSE Done(think[1], <<>>, clean_tool_call_tags(think[2]))
  IN IF m.choices THEN Think(extract_think_content(ContentOrEmpty(m.content))) ELSE m

\* ------------------------------------------------------------------------
\* Streaming: one chunk of one choice
\*
\* A delta is [content, reasoning_content, tool_calls, finish_reason], the
\* last one the finish_reason of the chunk's choice.
\* ------------------------------------------------------------------------

\* ToolCallHandler._get_stream_buffer: the state of a new session.
NewStreamBuffer ==
  [buffer |-> <<>>, in_thinking |-> FALSE, think_complete |-> FALSE,
   reasoning_emitted |-> FALSE]

\* HookThinkComplete with the delta's content left as the fragment.
HookThinkCompleteKeepingContent(buf, delta, reasoning, content) ==
  [buf |-> [buf EXCEPT !.think_complete = TRUE,
                       !.reasoning_emitted = @ \/ Truthy(reasoning)],
   delta |-> [delta EXCEPT
                !.reasoning_content =
                   IF Truthy(reasoning) /\ ~buf.reasoning_emitted THEN reasoning ELSE @]]

\* The end of a think span in the streaming hook (lines 288-301 and
\* 305-319): the span is marked complete, the reasoning goes out once,
\* and the delta's content becomes what was found after the marker.
HookThinkComplete(buf, delta, reasoning, content) ==
  [buf |-> [buf EXCEPT !.think_complete = TRUE,
                       !.reasoning_emitted = @ \/ Truthy(reasoning)],
   delta |-> [delta EXCEPT
                !.reasoning_content =
                   IF Truthy(reasoning) /\ ~buf.reasoning_emitted THEN reasoning ELSE @,
                !.content = content]]

\* HookBranches with the thinking branch taken in THINK_DONE too.
HookBranchesThinkingAfterDone(buf, delta) ==
  LET Parsed(parsed) == HookThinkComplete(buf, delta, parsed[1], parsed[2])
      Remaining(remaining) == IF remaining # <<>> THEN remaining ELSE None
      Parts(cut) ==
        HookThinkComplete(buf, delta, Strip(SubSeq(buf.buffer, 1, cut - 1)),
                          Remaining(Strip(From(buf.buffer, cut + Len(THINK_CLOSE)))))
  IN IF ~buf.in_thinking /\ ~buf.think_complete /\ Contains(buf.buffer, THINK_CLOSE)
     THEN Parts(Find(buf.buffer, THINK_CLOSE, 1))
     ELSE IF buf.in_thinking /\ ~buf.think_complete /\ Contains(buf.buffer, THINK_CLOSE)
     THEN Parsed(ParseThinkTags(buf.buffer))
     ELSE IF buf.in_thinking
     THEN [buf |-> buf,
           delta |-> [delta EXCEPT
                        !.reasoning_content = ReplaceAll(delta.content, THINK_OPEN, <<>>, 1),
                        !.content = None]]
     ELSE [buf |-> buf, delta |-> delta]

\* The branches of the streaming hook on the buffer with the fragment
\* added (lines 287-330).
HookBranches(buf, delta) ==
  LET Parsed(parsed) == HookThinkComplete(buf, delta, parsed[1], parsed[2])
      Remaining(remaining) == IF remaining # <<>> THEN remaining ELSE None
      Parts(cut) ==
        HookThinkComplete(buf, delta, Strip(SubSeq(buf.buffer, 1, cut - 1)),
                          Remaining(Strip(From(buf.buffer, cut + Len(THINK_CLOSE)))))
  IN IF ~buf.in_thinking /\ ~buf.think_complete /\ Contains(buf.buffer, THINK_CLOSE)
     THEN Parts(Find(buf.buffer, THINK_CLOSE, 1))
     ELSE IF buf.in_thinking /\ ~buf.think_complete /\ Contains(buf.buffer, THINK_CLOSE)
     THEN Parsed(ParseThinkTags(buf.buffer))
     ELSE IF buf.in_thinking /\ ~buf.think_complete
     THEN [buf |-> buf,
           delta |-> [delta EXCEPT
                        !.reasoning_content = ReplaceAll(delta.content, THINK_OPEN, <<>>, 1),
                        !.content = None]]
     ELSE [buf |-> buf, delta |-> delta]

\* StreamHookContent with in_thinking taken from the fragment alone.
StreamHookContentForgetting(buf, delta) ==
  HookBranches(
    [buf EXCEPT !.buffer = @ \o delta.content,
                !.in_thinking = Contains(delta.content, THINK_OPEN)],
    delta)

\* The body of async_post_call_streaming_deployment_hook for a delta with
\* content (lines 278-330): [buf, delta].
StreamHookContent(buf, delta) ==
  HookBranches(
    [buf EXCEPT !.buffer = @ \o delta.content,
                !.in_thinking = @ \/ Contains(buf.buffer \o delta.content, THINK_OPEN)],
    delta)

\* The think step of stream_generator (lines 303-310) on [acc, delta].
GeneratorThinkStep(st) ==
  LET Extracted(think) ==
        IF Truthy(think[1])
        THEN [acc |-> think[2],
              delta |-> [st.delta EXCEPT !.reasoning_content = think[1], !.content = <<>>]]
        ELSE st
  IN IF Contains(st.acc, THINK_CLOSE) /\ Contains(st.acc, THINK_OPEN)
     THEN Extracted(extract_think_content(st.acc))
     ELSE st

\* The tool-call step of stream_generator (lines 313-322) on [acc, delta].
GeneratorToolStep(st) ==
  LET Extracted(extracted) ==
        IF extracted[1] # <<>>
        THEN [acc |-> extracted[2],
              delta |-> [st.delta EXCEPT !.content = extracted[2],
                                         !.tool_calls = extracted[1],
                                         !.finish_reason = "tool_calls"]]
        ELSE st
  IN IF Contains(st.acc, TOOL_CLOSE) THEN Extracted(extract_tool_calls(st.acc))
     ELSE st

\* The body of proxy.stream_generator for one choice whose delta has
\* content (lines 296-322): [acc, delta], acc the accumulated text of the
\* choice's index.
StreamGeneratorContent(acc0, delta) ==
  GeneratorToolStep(GeneratorThinkStep([acc |-> acc0 \o delta.content, delta |-> delta]))

\* ------------------------------------------------------------------------
\* Inputs
\* ------------------------------------------------------------------------

\* The longest message of complete mode, in pieces.
MaxPieces == 3

\* How often the complete-mode hooks are applied to one message.
MaxCalls == 2

\* The most fragments with text a stream is cut in.
MaxFrags == 2

\* Tool-call bodies: JSON with nested arguments, JSON with a name only,
\* JSON with a name and one more key, a body that is no JSON, and the
\* XML-argument dialect.
JSON_NESTED ==
  <<"{">> \o QUOTED_NAME \o <<":", "\"", "n", "\"", ",">> \o QUOTED_ARGUMENTS
  \o <<":", "{", "\"", "a", "\"", ":", "1", "}", "}">>
JSON_FLAT == <<"{">> \o QUOTED_NAME \o <<":", "\"", "n", "\"", "}">>
JSON_KEYS ==
  <<"{">> \o QUOTED_NAME \o <<":", "\"", "n", "\"", ",", "\"", "a", "\"", ":", "1", "}">>
NOT_JSON == <<"{", "x", "}">>
XML_BODY == <<"n", " ", "<", "a", ">", "1", "<", "/", "a", ">">>

\* A whole tool-call span.
Span(body) == TOOL_OPEN \o body \o TOOL_CLOSE

\* The pieces a complete message is made of: plain text, the think
\* markers alone, a tool-call span of each dialect, an opening tool-call
\* marker alone, a JSON invocation without markers.
Pieces ==
  { <<"r">>, <<" ", "c">>, THINK_OPEN, THINK_CLOSE, TOOL_OPEN,
    Span(JSON_NESTED), Span(JSON_FLAT), Span(JSON_KEYS), Span(NOT_JSON),
    Span(XML_BODY), JSON_NESTED }

RECURSIVE Texts(_)

\* The texts of at most n pieces.
Texts(n) ==
  IF n = 0 THEN {<<>>} ELSE {t \o p : t \in Texts(n - 1), p \in Pieces \cup {<<>>}}

\* The contents of the messages of complete mode; a message may also come
\* without a content field.
CompleteInputs == (Texts(MaxPieces) \ {<<>>}) \cup {Missing}

\* The texts of a stream: an opening think marker or none, reasoning text,
\* a closing think marker or none, visible text, and at the end nothing,
\* one or two tool-call spans, a tool-call span left open, or one more
\* think marker.
StreamInputs ==
  { o \o r \o c \o d \o t :
      o \in {<<>>, THINK_OPEN},
      r \in {<<>>, <<"r">>, <<"r", " ", "c">>},
      c \in {<<>>, THINK_CLOSE},
      d \in {<<>>, <<"d">>},
      t \in {<<>>, Span(JSON_FLAT), Span(JSON_FLAT) \o Span(JSON_FLAT),
             TOOL_OPEN \o JSON_FLAT, THINK_OPEN, THINK_CLOSE} } \ {<<>>}

\* finish_reason None, and the upstream's own finish_reason.
FinishNone == "None"
FinishStop == "stop"

\* An invocation the upstream itself supplied in message.tool_calls.
UpstreamCall == ToolCall(<<"call_upstream">>, <<"u">>, <<"{", "}">>)

\* The two implementations.
Impls == {"handler", "tabby"}

\* The request id of the streamed request (litellm_call_id).
RequestId == "r1"

\* The index of the streamed choice.
ChoiceIndex == 0

\* ------------------------------------------------------------------------
\* State
\* ------------------------------------------------------------------------

VARIABLES
  impl,                 \* which implementation handles the response
  text,                 \* the raw text of the response
  message,              \* complete mode: the message of choices[0]
  hooks,                \* complete mode: the hooks applied so far, in order
  rest,                 \* streaming: the text the upstream has not sent yet
  frags,                \* streaming: the fragments the upstream has sent
  out,                  \* streaming: the deltas delivered to the client
  stream_buffers,       \* ToolCallHandler._stream_buffers
  accumulated_content,  \* stream_generator's accumulated_content
  finished,             \* streaming: the terminal chunk has been processed
  requests,             \* sessions: the requests in flight, by name
  recipe,               \* launch: the recipe of the model to serve
  cmd,                  \* launch: the command build_vllm_command returned
  chat_template_kwargs, \* launch: what get_chat_template_kwargs returned
  call_type,            \* pre-call: the call_type async_pre_call_hook is given
  data,                 \* pre-call: the request data, which the hook changes in place
  returned,             \* pre-call: async_pre_call_hook has returned
  events,               \* relay: the data events the upstream sends, in order
  buffer,               \* relay: stream_generator's buffer
  switch_lock,          \* controller: who holds _switch_lock
  handlers,             \* controller: the /launch and /evict requests, by name
  processes             \* controller: the backends running on the inference port

\* The state of a launch.
launchVars == <<recipe, cmd, chat_template_kwargs>>

\* The state of the parts other than responses and launches.
switchVars == <<switch_lock, handlers, processes>>
sideVars == <<call_type, data, returned, events, buffer, switchVars>>

\* The state of the responses.
responseVars == <<text, message, hooks, rest, frags, out, stream_buffers,
                  accumulated_content, finished, requests>>

vars == <<impl, text, message, hooks, rest, frags, out, stream_buffers,
          accumulated_content, finished, requests, launchVars, sideVars>>

\* The message of an upstream response.
UpstreamMessage(content, tool_calls) ==
  [choices |-> TRUE, content |-> content, reasoning_content |-> None,
   tool_calls |-> tool_calls, finish_reason |-> FinishStop]

\* No message: a response without choices.
NoMessage ==
  [choices |-> FALSE, content |-> Missing, reasoning_content |-> None,
   tool_calls |-> <<>>, finish_reason |-> FinishNone]

\* No launch has been asked for.
NotBuilt == [t |-> "unset", v |-> <<>>]
NoLaunch == recipe = None /\ cmd = <<>> /\ chat_template_kwargs = NotBuilt

\* A dict without a key, and with a key set.
Without(d, key) == [k \in DOMAIN d \ {key} |-> d[k]]
With(d, key, val) == [k \in DOMAIN d \cup {key} |-> IF k = key THEN val ELSE d[k]]
EmptyDict == [k \in {} |-> <<>>]

\* A key a dict does not have, and a list.
Absent == [t |-> "absent", v |-> <<>>]
List(items) == [t |-> "list", v |-> items]

\* No response is under way.
NoResponse ==
  /\ text = <<>> /\ message = NoMessage /\ hooks = <<>>
  /\ rest = <<>> /\ frags = <<>> /\ out = <<>>
  /\ stream_buffers = EmptyDict /\ accumulated_content = EmptyDict
  /\ finished = FALSE /\ requests = EmptyDict

\* No pre-call hook is under way, and no relay.
NoPreCall ==
  /\ call_type = "none"
  /\ data = [functions |-> Absent, tools |-> Absent, function_call |-> Absent,
             tool_choice |-> Absent]
  /\ returned = FALSE
NoRelay == events = <<>> /\ buffer = <<>>

\* The controller serves no request, and no backend runs.
NoSwitch == switch_lock = "free" /\ handlers = EmptyDict /\ processes = {}

\* Nothing but responses and launches is under way.
NoSide == NoPreCall /\ NoRelay /\ NoSwitch

\* ------------------------------------------------------------------------
\* Complete mode
\* ------------------------------------------------------------------------

\* A response with a message, or (its content missing) without choices.
InitComplete ==
  /\ impl \in Impls
  /\ text \in CompleteInputs
  /\ \/ \E existing \in {<<>>, <<UpstreamCall>>} : message = UpstreamMessage(text, existing)
     \/ text = Missing /\ message = NoMessage
  /\ hooks = <<>>
  /\ rest = <<>>
  /\ frags = <<>>
  /\ out = <<>>
  /\ stream_buffers = EmptyDict
  /\ accumulated_content = EmptyDict
  /\ finished = FALSE
  /\ requests = EmptyDict
  /\ NoLaunch
  /\ NoSide

\* ToolCallHandler.async_post_call_success_deployment_hook on a response.
PostCallSuccessDeploymentHook ==
  /\ impl = "handler"
  /\ Len(hooks) < MaxCalls
  /\ message' = async_post_call_success_deployment_hook(message)
  /\ hooks' = Append(hooks, "async_post_call_success_deployment_hook")
  /\ UNCHANGED <<impl, text, rest, frags, out, stream_buffers, accumulated_content,
                 finished, requests, launchVars, sideVars>>

\* ToolCallHandler.async_post_call_success_hook on a response.
PostCallSuccessHook ==
  /\ impl = "handler"
  /\ Len(hooks) < MaxCalls
  /\ message' = async_post_call_success_hook(message)
  /\ hooks' = Append(hooks, "async_post_call_success_hook")
  /\ UNCHANGED <<impl, text, rest, frags, out, stream_buffers, accumulated_content,
                 finished, requests, launchVars, sideVars>>

\* tabby_proxy.transform_response on a response.
TransformResponse ==
  /\ impl = "tabby"
  /\ Len(hooks) < MaxCalls
  /\ message' = transform_response(message)
  /\ hooks' = Append(hooks, "transform_response")
  /\ UNCHANGED <<impl, text, rest, frags, out, stream_buffers, accumulated_content,
                 finished, requests, launchVars, sideVars>>

NextComplete ==
  \/ PostCallSuccessDeploymentHook
  \/ PostCallSuccessHook
  \/ TransformResponse

SpecComplete == InitComplete /\ [][NextComplete]_vars

\* ------------------------------------------------------------------------
\* Streaming
\* ------------------------------------------------------------------------

InitStream ==
  /\ impl \in Impls
  /\ text \in StreamInputs
  /\ message = NoMessage
  /\ hooks = <<>>
  /\ rest = text
  /\ frags = <<>>
  /\ out = <<>>
  /\ stream_buffers = EmptyDict
  /\ accumulated_content = EmptyDict
  /\ finished = FALSE
  /\ requests = EmptyDict
  /\ NoLaunch
  /\ NoSide

\* The chunks the upstream may send next: the next n characters of the
\* text as one fragment, the last of at most MaxFrags taking all the rest;
\* finish_reason comes with the last fragment, or on an empty chunk after it.
UpstreamChunk(n, fin) ==
  /\ ~finished
  /\ n = 0 => (rest = <<>> /\ fin)
  /\ n > 0 => (Len(frags) < MaxFrags - 1 \/ n = Len(rest))
  /\ fin => n = Len(rest)

\* The delta the upstream sends.
UpstreamDelta(n, fin) ==
  [content |-> SubSeq(rest, 1, n), reasoning_content |-> None, tool_calls |-> <<>>,
   finish_reason |-> IF fin THEN FinishStop ELSE FinishNone]

\* The stream buffers after _get_stream_buffer (lines 52-61).
GetStreamBuffer(buffers, request_id) ==
  IF request_id \in DOMAIN buffers THEN buffers
  ELSE With(buffers, request_id, NewStreamBuffer)

\* ToolCallHandler.async_post_call_streaming_deployment_hook on a chunk
\* (lines 265-340): [buffers, delta].  With delta None the body of line 275
\* is skipped, the clean-up of line 335 with it; a content that is no
\* string raises TypeError at line 280, which line 337 catches.
async_post_call_streaming_deployment_hook(buffers0, request_id, delta) ==
  LET Cleanup(buffers, sent) ==
        [buffers |-> IF delta.finish_reason # FinishNone
                     THEN Without(buffers, request_id) ELSE buffers,
         delta |-> sent]
      Stepped(buffers, step) ==
        Cleanup(With(buffers, request_id, step.buf), step.delta)
      Buffered(buffers) ==
        IF delta.content = NoDelta \/ delta.content = NotAString
        THEN [buffers |-> buffers, delta |-> delta]
        ELSE IF ContentOrEmpty(delta.content) # <<>>
        THEN Stepped(buffers, StreamHookContent(buffers[request_id], delta))
        ELSE Cleanup(buffers, delta)
  IN Buffered(GetStreamBuffer(buffers0, request_id))

\* proxy.stream_generator on the one choice of a data event (lines
\* 288-327): [accumulated, delta, raised].  With delta None line 294 raises
\* AttributeError, with a content that is no string line 300 raises
\* TypeError; line 326 catches JSONDecodeError only, so either one ends
\* the generator before the yield of line 324.
stream_generator(accumulated, idx, delta) ==
  LET Stepped(step) ==
        [accumulated |-> With(accumulated, idx, step.acc), delta |-> step.delta,
         raised |-> FALSE]
      Accumulated == IF idx \in DOMAIN accumulated THEN accumulated[idx] ELSE <<>>
  IN IF delta.content = NoDelta
     THEN [accumulated |-> accumulated, delta |-> delta, raised |-> TRUE]
     ELSE IF delta.content = NotAString
     THEN [accumulated |-> With(accumulated, idx, Accumulated), delta |-> delta,
           raised |-> TRUE]
     ELSE IF ContentOrEmpty(delta.content) # <<>>
     THEN Stepped(StreamGeneratorContent(Accumulated, delta))
     ELSE [accumulated |-> accumulated, delta |-> delta, raised |-> FALSE]

\* What a handler does to the state with the chunk it is given.
Delivered(n, sent) ==
  /\ out' = Append(out, sent)
  /\ frags' = Append(frags, SubSeq(rest, 1, n))
  /\ rest' = From(rest, n + 1)

\* ToolCallHandler.async_post_call_streaming_deployment_hook on one chunk.
StreamingDeploymentHook(n, fin) ==
  LET Hooked(hooked) ==
        /\ stream_buffers' = hooked.buffers
        /\ Delivered(n, hooked.delta)
  IN /\ impl = "handler"
     /\ UpstreamChunk(n, fin)
     /\ Hooked(async_post_call_streaming_deployment_hook(
                 stream_buffers, RequestId, UpstreamDelta(n, fin)))
     /\ finished' = fin
     /\ UNCHANGED <<impl, text, message, hooks, accumulated_content, requests,
                    launchVars, sideVars>>

\* proxy.stream_generator on one data event.
StreamGeneratorEvent(n, fin) ==
  LET Yielded(yielded) ==
        /\ accumulated_content' = yielded.accumulated
        /\ Delivered(n, yielded.delta)
  IN /\ impl = "tabby"
     /\ UpstreamChunk(n, fin)
     /\ Yielded(stream_generator(accumulated_content, ChoiceIndex, UpstreamDelta(n, fin)))
     /\ finished' = fin
     /\ UNCHANGED <<impl, text, message, hooks, stream_buffers, requests,
                    launchVars, sideVars>>

NextStream ==
  \/ \E n \in 0..Len(rest), fin \in BOOLEAN : StreamingDeploymentHook(n, fin)
  \/ \E n \in 0..Len(rest), fin \in BOOLEAN : StreamGeneratorEvent(n, fin)

SpecStream == InitStream /\ [][NextStream]_vars

\* ------------------------------------------------------------------------
\* Sessions: the chunks of requests in flight, interleaved, whatever the
\* upstream puts in them
\* ------------------------------------------------------------------------

\* The most chunks the upstream sends for one request.
MaxChunks == 2

\* What the upstream may put in a chunk: text that opens a think span,
\* plain text, an empty content, no delta, a content that is no string.
ChunkContents == {THINK_OPEN, <<"d">>, <<>>, NoDelta, NotAString}

\* The request_data of request q: with a litellm_call_id, with an id only,
\* with neither.
RequestData(q) ==
  { [litellm_call_id |-> <<q>>, id |-> None],
    [litellm_call_id |-> None, id |-> <<q>>],
    [litellm_call_id |-> None, id |-> None] }

\* request_data.get('litellm_call_id') or request_data.get('id') or
\* 'unknown' (line 267).
RequestIdOf(request_data) ==
  IF Truthy(request_data.litellm_call_id) THEN request_data.litellm_call_id
  ELSE IF Truthy(request_data.id) THEN request_data.id
  ELSE <<"unknown">>

\* A request at its start: nothing sent by the upstream, nothing delivered,
\* its generator's accumulated_content empty (tabby_proxy.py line 264).
NewRequest(request_data) ==
  [request_data |-> request_data, sent |-> <<>>, out |-> <<>>,
   accumulated_content |-> EmptyDict, streaming |-> TRUE]

\* Two requests in flight at one ToolCallHandler; one at the tabby proxy,
\* where every request has a generator of its own.
InitSessions ==
  /\ impl \in Impls
  /\ \E a \in RequestData("A"), b \in RequestData("B") :
       requests = [q \in IF impl = "handler" THEN {"A", "B"} ELSE {"A"} |->
                     NewRequest(IF q = "A" THEN a ELSE b)]
  /\ text = <<>>
  /\ message = NoMessage
  /\ hooks = <<>>
  /\ rest = <<>>
  /\ frags = <<>>
  /\ out = <<>>
  /\ stream_buffers = EmptyDict
  /\ accumulated_content = EmptyDict
  /\ finished = FALSE
  /\ NoLaunch
  /\ NoSide

\* The chunk of the upstream with this content, the last one of its
\* request when it carries a finish_reason.
SessionChunk(content, fin) ==
  [content |-> content, reasoning_content |-> None, tool_calls |-> <<>>,
   finish_reason |-> IF fin THEN FinishStop ELSE FinishNone]

\* ToolCallHandler.async_post_call_streaming_deployment_hook on the next
\* chunk of request q; chunks without a finish_reason may still come after
\* the terminal one (a usage chunk, which has no choices).
SessionHook(q, content, fin) ==
  LET Hooked(chunk, hooked) ==
        /\ stream_buffers' = hooked.buffers
        /\ requests' = [requests EXCEPT ![q].sent = Append(@, chunk),
                                        ![q].out = Append(@, hooked.delta),
                                        ![q].streaming = @ /\ ~fin]
      Sent(chunk) ==
        Hooked(chunk, async_post_call_streaming_deployment_hook(
                        stream_buffers, RequestIdOf(requests[q].request_data), chunk))
  IN /\ impl = "handler"
     /\ requests[q].streaming \/ ~fin
     /\ Len(requests[q].sent) < MaxChunks
     /\ Sent(SessionChunk(content, fin))
     /\ UNCHANGED <<impl, text, message, hooks, rest, frags, out, accumulated_content,
                    finished, launchVars, sideVars>>

\* proxy.stream_generator of request q on the next data event: an
\* exception ends the generator, and with it the stream of the request.
SessionGenerator(q, content, fin) ==
  LET Yielded(chunk, yielded) ==
        requests' = [requests EXCEPT
                       ![q].sent = Append(@, chunk),
                       ![q].out = IF yielded.raised THEN @ ELSE Append(@, yielded.delta),
                       ![q].accumulated_content = yielded.accumulated,
                       ![q].streaming = ~fin /\ ~yielded.raised]
      Sent(chunk) ==
        Yielded(chunk, stream_generator(requests[q].accumulated_content, ChoiceIndex, chunk))
  IN /\ impl = "tabby"
     /\ requests[q].streaming
     /\ Len(requests[q].sent) < MaxChunks
     /\ Sent(SessionChunk(content, fin))
     /\ UNCHANGED <<impl, text, message, hooks, rest, frags, out, stream_buffers,
                    accumulated_content, finished, launchVars, sideVars>>

NextSessions ==
  \/ \E q \in DOMAIN requests, content \in ChunkContents, fin \in BOOLEAN :
       SessionHook(q, content, fin)
  \/ \E q \in DOMAIN requests, content \in ChunkContents, fin \in BOOLEAN :
       SessionGenerator(q, content, fin)

SpecSessions == InitSessions /\ [][NextSessions]_vars

\* ------------------------------------------------------------------------
\* Launch: controller/thinking_config.py and controller/backends.py
\*
\* A str is its characters; an int that may be None is a JSON value,
\* JNull or JInt of its digits; a dict is the members of a JSON object.
\* ------------------------------------------------------------------------

\* None, True and False as JSON values.
JNull == [t |-> "null", v |-> <<"n", "u", "l", "l">>]
JBool(b) == [t |-> "bool", v |-> IF b THEN <<"t", "r", "u", "e">> ELSE <<"f", "a", "l", "s", "e">>]

RECURSIVE Str(_)

\* str(n) of an int n >= 0.
Str(n) ==
  IF n < 10 THEN <<<<"0", "1", "2", "3", "4", "5", "6", "7", "8", "9">>[n + 1]>>
  ELSE Str(n \div 10) \o <<<<"0", "1", "2", "3", "4", "5", "6", "7", "8", "9">>[(n % 10) + 1]>>

\* str.lower().
Lower(s) ==
  LET upper == <<"A", "B", "C", "D", "E", "F", "G", "H", "I", "J", "K", "L", "M", "N", "O", "P", "Q", "R", "S", "T", "U", "V", "W", "X", "Y", "Z">>
      lower == <<"a", "b", "c", "d", "e", "f", "g", "h", "i", "j", "k", "l", "m", "n", "o", "p", "q", "r", "s", "t", "u", "v", "w", "x", "y", "z">>
      Low(c) == IF \E k \in 1..26 : upper[k] = c
                THEN lower[CHOOSE k \in 1..26 : upper[k] = c] ELSE c
  IN [k \in 1..Len(s) |-> Low(s[k])]

\* (recipe.served_model_name or recipe.model_path or "").lower()
\* (thinking_config.py lines 46 and 107, backends.py lines 60 and 95).
ModelId(r) ==
  Lower(IF Truthy(r.served_model_name) THEN r.served_model_name
        ELSE IF Truthy(r.model_path) THEN r.model_path ELSE <<>>)

\* The tests of the model families on a model id (thinking_config.py lines
\* 58-72 and 110-114, backends.py lines 63, 67 and 96).
IsModel(family, model_id) ==
  CASE family = "minimax_m2" ->
         /\ Contains(model_id, <<"m", "i", "n", "i", "m", "a", "x">>)
         /\ (Contains(model_id, <<"m", "2">>) \/ Contains(model_id, <<"m", "-", "2">>))
    [] family = "reap_50" ->
         Contains(model_id, <<"r", "e", "a", "p", "-", "5", "0">>) \/ Contains(model_id, <<"r", "e", "a", "p", "_", "5", "0">>)
    [] family = "intellect_3" ->
         Contains(model_id, <<"i", "n", "t", "e", "l", "l", "e", "c", "t">>) /\ Contains(model_id, <<"3">>)
    [] family = "glm" ->
         /\ Contains(model_id, <<"g", "l", "m">>)
         /\ \E v \in {<<"4", ".", "5">>, <<"4", ".", "6">>, <<"4", ".", "7">>,
                      <<"4", "-", "5">>, <<"4", "-", "6">>, <<"4", "-", "7">>} :
              Contains(model_id, v)
    [] family = "deepseek_r1" ->
         Contains(model_id, <<"d", "e", "e", "p", "s", "e", "e", "k">>) /\ Contains(model_id, <<"r", "1">>)

\* calculate_thinking_tokens (thinking_config.py lines 46-93).  A
\* multiplier is <<numerator, denominator>>: 0.25, 1.0 and 2.0 are exact
\* floats, and int() of the product truncates.
calculate_thinking_tokens(r) ==
  LET Clamped(calculated) ==
        JInt(Str(IF calculated > 512000 THEN 512000
                 ELSE IF calculated < 2048 THEN 2048 ELSE calculated))
      Special(model_id, calculated) ==
        IF IsModel("intellect_3", model_id) /\ r.thinking_mode = "conservative"
        THEN Clamped(16384) ELSE Clamped(calculated)
      Multiplied(model_id, base_limit, multiplier) ==
        Special(model_id, (base_limit * multiplier[1]) \div multiplier[2])
      Base(model_id, base_limit) ==
        Multiplied(model_id, base_limit,
                   CASE r.thinking_mode = "conservative" -> <<1, 4>>
                     [] r.thinking_mode = "aggressive" -> <<2, 1>>
                     [] OTHER -> <<1, 1>>)
      Limit(model_id) ==
        Base(model_id,
             IF IsModel("minimax_m2", model_id)
             THEN (IF IsModel("reap_50", model_id) THEN 128000 ELSE 64000)
             ELSE IF IsModel("intellect_3", model_id)
             THEN (IF IsModel("reap_50", model_id) THEN 128000 ELSE 64000)
             ELSE IF IsModel("glm", model_id) THEN 32000
             ELSE IF IsModel("deepseek_r1", model_id) THEN 64000
             ELSE 32000)
  IN IF r.max_thinking_tokens # JNull THEN r.max_thinking_tokens
     ELSE IF r.thinking_mode = "disabled" THEN JInt(<<"0">>)
     ELSE Limit(ModelId(r))

\* get_chat_template_kwargs (thinking_config.py lines 107-130): a dict, or
\* JNull for None.
get_chat_template_kwargs(r) ==
  LET Kwargs(model_id, max_thinking) ==
        IF max_thinking = JNull \/ max_thinking = JInt(<<"0">>)
        THEN (IF max_thinking = JInt(<<"0">>) /\ Contains(model_id, <<"m", "i", "n", "i", "m", "a", "x">>)
              THEN JObj(<< <<<<"e", "n", "a", "b", "l", "e", "_", "t", "h", "i", "n", "k", "i", "n", "g">>, JBool(FALSE)>> >>)
              ELSE JNull)
        ELSE JObj(<< <<<<"m", "a", "x", "_", "t", "h", "i", "n", "k", "i", "n", "g", "_", "t", "o", "k", "e", "n", "s">>, max_thinking>> >>)
      Reasoning(model_id) ==
        IF \E family \in {"minimax_m2", "glm", "intellect_3", "deepseek_r1"} :
             IsModel(family, model_id)
        THEN Kwargs(model_id, calculate_thinking_tokens(r))
        ELSE JNull
  IN Reasoning(ModelId(r))

RECURSIVE _normalize_json_arg(_)

\* _normalize_json_arg (backends.py lines 21-25): the keys of a dict, at
\* every depth, with "-" replaced by "_".
_normalize_json_arg(value) ==
  IF value.t = "obj"
  THEN JObj([k \in 1..Len(value.v) |->
               <<ReplaceAll(value.v[k][1], <<"-">>, <<"_">>, 1),
                 _normalize_json_arg(value.v[k][2])>>])
  ELSE value

\* _get_extra_arg (backends.py lines 30-38): the value under the key, its
\* kebab-case or its snake_case form, JNull when none is there.
_get_extra_arg(extra_args, key) ==
  LET Has(name) == \E k \in 1..Len(extra_args.v) : extra_args.v[k][1] = name
      kebab == ReplaceAll(key, <<"_">>, <<"-">>, 1)
      snake == ReplaceAll(key, <<"-">>, <<"_">>, 1)
  IN IF Has(key) THEN DictGet(extra_args, key, JNull)
     ELSE IF Has(kebab) THEN DictGet(extra_args, kebab, JNull)
     ELSE IF Has(snake) THEN DictGet(extra_args, snake, JNull)
     ELSE JNull

\* os.path.join(a, b) and os.path.dirname(p) of posixpath.
PathJoin(a, b) ==
  IF StartsWith(b, <<"/">>) THEN b
  ELSE IF a = <<>> \/ EndsWith(a, <<"/">>) THEN a \o b
  ELSE a \o <<"/">> \o b
PathDirname(p) ==
  LET Stripped(head) ==
        IF \A k \in 1..Len(head) : head[k] = "/" THEN head
        ELSE SubSeq(head, 1, MaxOr({k \in 1..Len(head) : head[k] # "/"}, 0))
  IN Stripped(SubSeq(p, 1, MaxOr({k \in 1..Len(p) : p[k] = "/"}, 0)))

\* _get_python_path (backends.py lines 44-54); python_bin_exists is what
\* os.path.exists answers for the python of the venv.
_get_python_path(r, python_bin_exists) ==
  LET Venv(venv_path) ==
        IF venv_path # JNull /\ JTruthy(venv_path) /\ python_bin_exists
        THEN PathJoin(PathJoin(venv_path.v, <<"b", "i", "n">>), <<"p", "y", "t", "h", "o", "n">>)
        ELSE None
  IN IF Truthy(r.python_path) THEN r.python_path
     ELSE Venv(_get_extra_arg(r.extra_args, <<"v", "e", "n", "v", "_", "p", "a", "t", "h">>))

\* _get_default_reasoning_parser (backends.py lines 60-70).
_get_default_reasoning_parser(r) ==
  IF IsModel("minimax_m2", ModelId(r)) THEN <<"m", "i", "n", "i", "m", "a", "x", "_", "m", "2", "_", "a", "p", "p", "e", "n", "d", "_", "t", "h", "i", "n", "k">>
  ELSE IF IsModel("glm", ModelId(r)) THEN <<"g", "l", "m", "4", "5">>
  ELSE None

RECURSIVE _append_extra_args(_, _, _)

\* _append_extra_args (backends.py lines 188-220) from the k-th item of
\* extra_args on: the command with the flags of the items appended.
_append_extra_args(c, extra_args, k) ==
  LET INTERNAL_KEYS ==
        {<<"v", "e", "n", "v", "_", "p", "a", "t", "h">>, <<"e", "n", "v", "_", "v", "a", "r", "s">>,
         <<"c", "u", "d", "a", "_", "v", "i", "s", "i", "b", "l", "e", "_", "d", "e", "v", "i", "c", "e", "s">>,
         <<"d", "e", "s", "c", "r", "i", "p", "t", "i", "o", "n">>, <<"t", "a", "g", "s">>, <<"s", "t", "a", "t", "u", "s">>}
      JSON_STRING_KEYS ==
        {<<"s", "p", "e", "c", "u", "l", "a", "t", "i", "v", "e", "_", "c", "o", "n", "f", "i", "g">>,
         <<"d", "e", "f", "a", "u", "l", "t", "_", "c", "h", "a", "t", "_", "t", "e", "m", "p", "l", "a", "t", "e", "_", "k", "w", "a", "r", "g", "s">>}
      key == extra_args.v[k][1]
      value == extra_args.v[k][2]
      normalized_key == Lower(ReplaceAll(key, <<"-">>, <<"_">>, 1))
      flag == <<"-", "-">> \o ReplaceAll(key, <<"_">>, <<"-">>, 1)
      Parsed(parsed) ==
        IF parsed.ok /\ parsed.val.t = "obj"
        THEN c \o <<flag, Dumps(_normalize_json_arg(parsed.val))>>
        ELSE c \o <<flag, value.v>>
      Appended ==
        IF normalized_key \in INTERNAL_KEYS THEN c
        ELSE IF \E j \in 1..Len(c) : c[j] = flag THEN c
        ELSE IF value = JBool(TRUE) THEN Append(c, flag)
        ELSE IF value = JBool(FALSE)
        THEN (IF normalized_key = <<"e", "n", "a", "b", "l", "e", "_", "e", "x", "p", "e", "r", "t", "_", "p", "a", "r", "a", "l", "l", "e", "l", "i", "s", "m">>
              THEN c ELSE Append(c, flag))
        ELSE IF value = JNull THEN c
        ELSE IF /\ value.t = "str"
                /\ normalized_key \in JSON_STRING_KEYS
                /\ StartsWith(Strip(value.v), <<"{">>)
        THEN Parsed(Loads(Strip(value.v)))
        ELSE IF value.t = "obj"
        THEN c \o <<flag, Dumps(_normalize_json_arg(value))>>
        ELSE c \o <<flag, value.v>>
  IN IF k > Len(extra_args.v) THEN c
     ELSE _append_extra_args(Appended, extra_args, k + 1)

\* build_vllm_command (backends.py lines 75-119); vllm_bin_exists is what
\* os.path.exists answers for the vllm beside the python.
build_vllm_command(r, python_bin_exists, vllm_bin_exists) ==
  LET Opt(cond, items) == IF cond THEN items ELSE <<>>
      Binary(python_path) ==
        IF Truthy(python_path)
        THEN (IF vllm_bin_exists
              THEN <<PathJoin(PathDirname(python_path), <<"v", "l", "l", "m">>), <<"s", "e", "r", "v", "e">>>>
              ELSE <<python_path, <<"-", "m">>,
                     <<"v", "l", "l", "m", ".", "e", "n", "t", "r", "y", "p", "o", "i", "n", "t", "s", ".", "o", "p", "e", "n", "a", "i", ".", "a", "p", "i", "_", "s", "e", "r", "v", "e", "r">>>>)
        ELSE <<<<"v", "l", "l", "m">>, <<"s", "e", "r", "v", "e">>>>
      Parser(reasoning_parser) ==
        Opt(Truthy(reasoning_parser), <<<<"-", "-", "r", "e", "a", "s", "o", "n", "i", "n", "g", "-", "p", "a", "r", "s", "e", "r">>, reasoning_parser>>)
  IN _append_extra_args(
       Binary(_get_python_path(r, python_bin_exists))
       \o <<r.model_path, <<"-", "-", "h", "o", "s", "t">>, r.host, <<"-", "-", "p", "o", "r", "t">>, Str(r.port)>>
       \o Opt(Truthy(r.served_model_name),
              <<<<"-", "-", "s", "e", "r", "v", "e", "d", "-", "m", "o", "d", "e", "l", "-", "n", "a", "m", "e">>, r.served_model_name>>)
       \o Opt(r.tensor_parallel_size > 1,
              <<<<"-", "-", "t", "e", "n", "s", "o", "r", "-", "p", "a", "r", "a", "l", "l", "e", "l", "-", "s", "i", "z", "e">>, Str(r.tensor_parallel_size)>>)
       \o Opt(r.pipeline_parallel_size > 1,
              <<<<"-", "-", "p", "i", "p", "e", "l", "i", "n", "e", "-", "p", "a", "r", "a", "l", "l", "e", "l", "-", "s", "i", "z", "e">>, Str(r.pipeline_parallel_size)>>)
       \o Opt(IsModel("minimax_m2", ModelId(r)) /\ r.tensor_parallel_size > 4,
              <<<<"-", "-", "e", "n", "a", "b", "l", "e", "-", "e", "x", "p", "e", "r", "t", "-", "p", "a", "r", "a", "l", "l", "e", "l">>>>)
       \o <<<<"-", "-", "m", "a", "x", "-", "m", "o", "d", "e", "l", "-", "l", "e", "n">>, Str(r.max_model_len)>>
       \o <<<<"-", "-", "g", "p", "u", "-", "m", "e", "m", "o", "r", "y", "-", "u", "t", "i", "l", "i", "z", "a", "t", "i", "o", "n">>, r.gpu_memory_utilization>>
       \o <<<<"-", "-", "m", "a", "x", "-", "n", "u", "m", "-", "s", "e", "q", "s">>, Str(r.max_num_seqs)>>
       \o Opt(r.kv_cache_dtype # <<"a", "u", "t", "o">>,
              <<<<"-", "-", "k", "v", "-", "c", "a", "c", "h", "e", "-", "d", "t", "y", "p", "e">>, r.kv_cache_dtype>>)
       \o Opt(r.trust_remote_code, <<<<"-", "-", "t", "r", "u", "s", "t", "-", "r", "e", "m", "o", "t", "e", "-", "c", "o", "d", "e">>>>)
       \o Opt(Truthy(r.tool_call_parser),
              <<<<"-", "-", "t", "o", "o", "l", "-", "c", "a", "l", "l", "-", "p", "a", "r", "s", "e", "r">>, r.tool_call_parser,
                <<"-", "-", "e", "n", "a", "b", "l", "e", "-", "a", "u", "t", "o", "-", "t", "o", "o", "l", "-", "c", "h", "o", "i", "c", "e">>>>)
       \o Parser(IF Truthy(r.reasoning_parser) THEN r.reasoning_parser
                 ELSE _get_default_reasoning_parser(r))
       \o Opt(Truthy(r.quantization), <<<<"-", "-", "q", "u", "a", "n", "t", "i", "z", "a", "t", "i", "o", "n">>, r.quantization>>)
       \o Opt(Truthy(r.dtype), <<<<"-", "-", "d", "t", "y", "p", "e">>, r.dtype>>),
       r.extra_args, 1)

\* The recipes of the launches.  The model paths are one per family of
\* thinking_config.py and one of no family; a served model name replaces
\* the path in every test of the family.  gpu_memory_utilization is the
\* text str() gives the float.
Recipes ==
  LET ModelPaths ==
        {<<"M", "i", "n", "i", "M", "a", "x", "A", "I", "/", "M", "i", "n", "i", "M", "a", "x", "-", "M", "2", ".", "1">>,
         <<"M", "i", "n", "i", "M", "a", "x", "A", "I", "/", "M", "i", "n", "i", "M", "a", "x", "-", "M", "2", ".", "1", "-", "R", "E", "A", "P", "-", "5", "0">>,
         <<"z", "a", "i", "/", "G", "L", "M", "-", "4", ".", "6">>,
         <<"P", "r", "i", "m", "e", "/", "I", "N", "T", "E", "L", "L", "E", "C", "T", "-", "3">>,
         <<"d", "e", "e", "p", "s", "e", "e", "k", "/", "D", "e", "e", "p", "S", "e", "e", "k", "-", "R", "1">>,
         <<"Q", "w", "e", "n", "/", "Q", "w", "e", "n", "3">>}
      ThinkingModes == {"conservative", "balanced", "aggressive", "disabled", "auto"}
      MaxThinkingTokens ==
        {JNull, JInt(<<"0">>), JInt(Str(42000)), JInt(Str(600000))}
      ExtraArgs ==
        {JObj(<<>>),
         JObj(<< <<<<"d", "e", "f", "a", "u", "l", "t", "-", "c", "h", "a", "t", "-", "t", "e", "m", "p", "l", "a", "t", "e", "-", "k", "w", "a", "r", "g", "s">>,
                   JObj(<< <<<<"m", "a", "x", "-", "t", "h", "i", "n", "k", "i", "n", "g", "-", "t", "o", "k", "e", "n", "s">>, JInt(<<"5">>)>> >>)>> >>),
         JObj(<< <<<<"v", "e", "n", "v", "_", "p", "a", "t", "h">>, JStr(<<"/", "v">>)>>,
                 <<<<"e", "n", "a", "b", "l", "e", "-", "p", "r", "e", "f", "i", "x", "-", "c", "a", "c", "h", "i", "n", "g">>, JBool(TRUE)>>,
                 <<<<"p", "o", "r", "t">>, JInt(<<"1">>)>> >>),
         JObj(<< <<<<"d", "e", "f", "a", "u", "l", "t", "_", "c", "h", "a", "t", "_", "t", "e", "m", "p", "l", "a", "t", "e", "_", "k", "w", "a", "r", "g", "s">>,
                   JStr(<<" ", "{", "\"", "a", "-", "b", "\"", ":", " ", "1", "}">>)>>,
                 <<<<"e", "n", "a", "b", "l", "e", "_", "e", "x", "p", "e", "r", "t", "_", "p", "a", "r", "a", "l", "l", "e", "l", "i", "s", "m">>, JBool(FALSE)>>,
                 <<<<"s", "e", "e", "d">>, JInt(<<"7">>)>>,
                 <<<<"t", "a", "g", "s">>, JNull>>,
                 <<<<"r", "e", "v", "i", "s", "i", "o", "n">>, JNull>> >>)}
  IN [model_path : ModelPaths,
      served_model_name : {None, <<"m">>},
      host : {<<"0", ".", "0", ".", "0", ".", "0">>},
      port : {8000},
      tensor_parallel_size : {4, 8},
      pipeline_parallel_size : {1},
      max_model_len : {200000},
      gpu_memory_utilization : {<<"0", ".", "9">>},
      max_num_seqs : {256},
      kv_cache_dtype : {<<"a", "u", "t", "o">>},
      trust_remote_code : {TRUE},
      tool_call_parser : {None},
      reasoning_parser : {None},
      quantization : {None},
      dtype : {None},
      python_path : {None},
      extra_args : ExtraArgs,
      thinking_mode : ThinkingModes,
      max_thinking_tokens : MaxThinkingTokens]

\* A recipe is loaded; nothing is built yet.
InitLaunch ==
  /\ impl = "launch"
  /\ recipe \in Recipes
  /\ cmd = <<>>
  /\ chat_template_kwargs = NotBuilt
  /\ text = <<>> /\ message = NoMessage /\ hooks = <<>>
  /\ rest = <<>> /\ frags = <<>> /\ out = <<>>
  /\ stream_buffers = EmptyDict /\ accumulated_content = EmptyDict
  /\ finished = FALSE /\ requests = EmptyDict
  /\ NoSide

\* cmd = build_vllm_command(recipe).
BuildVllmCommand ==
  /\ impl = "launch"
  /\ cmd = <<>>
  /\ \E python_bin_exists \in BOOLEAN, vllm_bin_exists \in BOOLEAN :
       cmd' = build_vllm_command(recipe, python_bin_exists, vllm_bin_exists)
  /\ UNCHANGED <<impl, text, message, hooks, rest, frags, out, stream_buffers,
                 accumulated_content, finished, requests, recipe,
                 chat_template_kwargs, sideVars>>

\* chat_template_kwargs = get_chat_template_kwargs(recipe).
GetChatTemplateKwargs ==
  /\ impl = "launch"
  /\ chat_template_kwargs = NotBuilt
  /\ chat_template_kwargs' = get_chat_template_kwargs(recipe)
  /\ UNCHANGED <<impl, text, message, hooks, rest, frags, out, stream_buffers,
                 accumulated_content, finished, requests, recipe, cmd, sideVars>>

NextLaunch == BuildVllmCommand \/ GetChatTemplateKwargs

SpecLaunch == InitLaunch /\ [][NextLaunch]_vars

\* ------------------------------------------------------------------------
\* Choices: the data events of a tabby_proxy stream with several choices
\* ------------------------------------------------------------------------

\* A choice of a chunk as the upstream sends it.
Choice(index, content) ==
  [delta |-> [content |-> content, reasoning_content |-> None, tool_calls |-> <<>>,
              finish_reason |-> FinishNone],
   index |-> index]

RECURSIVE stream_generator_choices(_, _, _)

\* The loop of proxy.stream_generator over the choices of one data event,
\* from the p-th on (lines 291-322): [accumulated, choices].  The text is
\* accumulated under the choice's index; the reasoning is written to
\* chunk_data["choices"][0]["delta"] (line 308), the rest to the delta of
\* the choice itself.
stream_generator_choices(accumulated, choices, p) ==
  LET Reasoned(own, st0, st1) ==
        IF st1 # st0
        THEN [own EXCEPT ![1].delta.reasoning_content = st1.delta.reasoning_content]
        ELSE own
      Tooled(idx, st0, st1, st2) ==
        stream_generator_choices(
          With(accumulated, idx, st2.acc),
          Reasoned([choices EXCEPT ![p].delta = st2.delta], st0, st1),
          p + 1)
      Thought(idx, st0, st1) ==
        Tooled(idx, st0, st1,
               GeneratorToolStep(
                 [st1 EXCEPT !.delta.reasoning_content = st0.delta.reasoning_content]))
      Content(idx, st0) == Thought(idx, st0, GeneratorThinkStep(st0))
      Accumulated(idx) == IF idx \in DOMAIN accumulated THEN accumulated[idx] ELSE <<>>
  IN IF p > Len(choices) THEN [accumulated |-> accumulated, choices |-> choices]
     ELSE IF choices[p].delta.content = <<>>
     THEN stream_generator_choices(accumulated, choices, p + 1)
     ELSE Content(choices[p].index,
                  [acc |-> Accumulated(choices[p].index) \o choices[p].delta.content,
                   delta |-> choices[p].delta])

\* A stream of chunks with one choice or with two: frags holds the chunks
\* the upstream sent, out the chunks the generator yielded.
InitChoices ==
  /\ impl = "choices"
  /\ text = <<>> /\ message = NoMessage /\ hooks = <<>> /\ rest = <<>>
  /\ frags = <<>> /\ out = <<>>
  /\ stream_buffers = EmptyDict /\ accumulated_content = EmptyDict
  /\ finished = FALSE /\ requests = EmptyDict
  /\ NoLaunch
  /\ NoSide

\* proxy.stream_generator on one data event with these choices.
ChoicesEvent(choices) ==
  LET Yielded(yielded) ==
        /\ accumulated_content' = yielded.accumulated
        /\ out' = Append(out, yielded.choices)
  IN /\ impl = "choices"
     /\ Len(frags) < MaxChunks
     /\ frags' = Append(frags, choices)
     /\ Yielded(stream_generator_choices(accumulated_content, choices, 1))
     /\ UNCHANGED <<impl, text, message, hooks, rest, stream_buffers, finished,
                    requests, launchVars, sideVars>>

\* The chunks of the upstream: one choice, of index 0 or 1, or both, each
\* with plain text, a part of a think span, a whole think span or nothing.
NextChoices ==
  LET ChoiceTexts ==
        {<<>>, <<"d">>, THINK_OPEN \o <<"r">>, THINK_CLOSE \o <<"c">>,
         THINK_OPEN \o <<"r">> \o THINK_CLOSE}
  IN \E a \in ChoiceTexts, b \in ChoiceTexts :
       \/ ChoicesEvent(<<Choice(0, a)>>)
       \/ ChoicesEvent(<<Choice(1, b)>>)
       \/ ChoicesEvent(<<Choice(0, a), Choice(1, b)>>)

SpecChoices == InitChoices /\ [][NextChoices]_vars

\* ------------------------------------------------------------------------
\* Relay: the server-sent events of a tabby_proxy stream
\* ------------------------------------------------------------------------

\* What ends a line and what ends an event.
LF == <<"\n">>
BLANK_LINE == <<"\n", "\n">>

\* f"data: {payload}\n\n".
DataEvent(payload) == <<"d", "a", "t", "a", ":", " ">> \o payload \o BLANK_LINE

\* What stream_generator yields for one line of a message (lines 277-327):
\* [yielded, raised].  json.loads of a text that is JSON but no object is
\* followed by AttributeError at line 291, which nothing catches.  The
\* objects of this model have no "choices".
RelayLine(line) ==
  LET Loaded(data_str, chunk_data) ==
        IF ~chunk_data.ok THEN [yielded |-> <<DataEvent(data_str)>>, raised |-> FALSE]
        ELSE IF chunk_data.val.t # "obj" THEN [yielded |-> <<>>, raised |-> TRUE]
        ELSE [yielded |-> <<DataEvent(Dumps(chunk_data.val))>>, raised |-> FALSE]
      Data(data_str) ==
        IF Strip(data_str) = <<"[", "D", "O", "N", "E", "]">>
        THEN [yielded |-> <<DataEvent(<<"[", "D", "O", "N", "E", "]">>)>>, raised |-> FALSE]
        ELSE Loaded(data_str, Loads(data_str))
  IN IF StartsWith(line, <<"d", "a", "t", "a", ":", " ">>) THEN Data(From(line, 7))
     ELSE [yielded |-> <<>>, raised |-> FALSE]

RECURSIVE RelayMessage(_)

\* The loop over message.split("\n") (line 276): an exception ends it.
RelayMessage(msg) ==
  LET Rest(first, later) ==
        IF first.raised THEN first
        ELSE [yielded |-> first.yielded \o later.yielded, raised |-> later.raised]
      Cut(n) ==
        IF n = 0 THEN RelayLine(msg)
        ELSE Rest(RelayLine(SubSeq(msg, 1, n - 1)), RelayMessage(From(msg, n + 1)))
  IN Cut(Find(msg, LF, 1))

RECURSIVE RelayBuffer(_)

\* while "\n\n" in buffer (lines 273-327): [buffer, yielded, raised].
RelayBuffer(buf) ==
  LET Rest(first, later) ==
        IF first.raised
        THEN [buffer |-> later.buffer, yielded |-> first.yielded, raised |-> TRUE]
        ELSE [buffer |-> later.buffer, yielded |-> first.yielded \o later.yielded,
              raised |-> later.raised]
      Cut(n) ==
        IF n = 0 THEN [buffer |-> buf, yielded |-> <<>>, raised |-> FALSE]
        ELSE Rest(RelayMessage(SubSeq(buf, 1, n - 1)), RelayBuffer(From(buf, n + 2)))
  IN Cut(Find(buf, BLANK_LINE, 1))

\* The events of the upstream: a JSON object, a text that is no JSON,
\* [DONE]; the last one ended by a blank line, by a line end only, or not
\* at all.  text is what the upstream sends, rest what it has yet to send.
InitRelay ==
  LET Payloads == {<<"{", "\"", "a", "\"", ":", "1", "}">>, <<"x">>, <<"[", "D", "O", "N", "E", "]">>}
      Wire(evs) ==
        IF Len(evs) = 1 THEN DataEvent(evs[1])
        ELSE DataEvent(evs[1]) \o DataEvent(evs[2])
  IN /\ impl = "relay"
     /\ events \in {<<a>> : a \in Payloads} \cup {<<a, b>> : a \in Payloads, b \in Payloads}
     /\ \E cut \in 0..2 : text = SubSeq(Wire(events), 1, Len(Wire(events)) - cut)
     /\ rest = text
     /\ buffer = <<>>
     /\ frags = <<>> /\ out = <<>> /\ finished = FALSE
     /\ message = NoMessage /\ hooks = <<>>
     /\ stream_buffers = EmptyDict /\ accumulated_content = EmptyDict
     /\ requests = EmptyDict
     /\ NoPreCall
     /\ NoSwitch
     /\ NoLaunch

\* One pass of "async for chunk in response.aiter_text()" (lines 270-327)
\* on the next n characters of the upstream; an exception ends the
\* generator.
RelayChunk(n) ==
  LET Relayed(relayed) ==
        /\ buffer' = relayed.buffer
        /\ out' = out \o relayed.yielded
        /\ finished' = relayed.raised
  IN /\ impl = "relay"
     /\ ~finished
     /\ Len(frags) < MaxFrags - 1 \/ n = Len(rest)
     /\ frags' = Append(frags, SubSeq(rest, 1, n))
     /\ rest' = From(rest, n + 1)
     /\ Relayed(RelayBuffer(buffer \o SubSeq(rest, 1, n)))
     /\ UNCHANGED <<impl, text, message, hooks, stream_buffers, accumulated_content,
                    requests, launchVars, call_type, data, returned, events,
                    switchVars>>

\* The upstream closes the stream: the loop of line 270 ends, and the
\* generator with it.
RelayClose ==
  /\ impl = "relay"
  /\ ~finished
  /\ rest = <<>>
  /\ finished' = TRUE
  /\ UNCHANGED <<impl, text, message, hooks, rest, frags, out, stream_buffers,
                 accumulated_content, requests, launchVars, call_type, data,
                 returned, events, buffer, switchVars>>

NextRelay == (\E n \in 1..Len(rest) : RelayChunk(n)) \/ RelayClose

SpecRelay == InitRelay /\ [][NextRelay]_vars

\* ------------------------------------------------------------------------
\* The pre-call hook: functions to tools
\* ------------------------------------------------------------------------

\* {"type": "function", "function": f} (line 85).
FunctionTool(f) == JObj(<< <<<<"t", "y", "p", "e">>, JStr(<<"f", "u", "n", "c", "t", "i", "o", "n">>)>>, <<<<"f", "u", "n", "c", "t", "i", "o", "n">>, f>> >>)

\* async_pre_call_hook, were it to leave function_call in the data.
AsyncPreCallHookKeepingFunctionCall(type, d) ==
  LET Chosen(popped, fc) ==
        IF fc = JStr(<<"a", "u", "t", "o">>) THEN [popped EXCEPT !.tool_choice = JStr(<<"a", "u", "t", "o">>)]
        ELSE IF fc = JStr(<<"n", "o", "n", "e">>) THEN [popped EXCEPT !.tool_choice = JStr(<<"n", "o", "n", "e">>)]
        ELSE IF fc.t = "obj" /\ \E k \in 1..Len(fc.v) : fc.v[k][1] = NAME_KEY
        THEN [popped EXCEPT !.tool_choice =
                FunctionTool(JObj(<< <<NAME_KEY, DictGet(fc, NAME_KEY, JNull)>> >>))]
        ELSE popped
      Converted(tooled) ==
        IF tooled.function_call.t # "absent"
        THEN Chosen(tooled, tooled.function_call)
        ELSE tooled
  IN IF type \notin {"completion", "acompletion"} THEN d
     ELSE IF d.functions.t # "absent" /\ d.tools.t = "absent"
     THEN Converted([d EXCEPT
                       !.functions = Absent,
                       !.tools = List([k \in 1..Len(d.functions.v) |->
                                         FunctionTool(d.functions.v[k])])])
     ELSE d

\* ToolCallHandler.async_pre_call_hook (lines 68-98): the data it returns,
\* which is the data it was given, changed in place.
async_pre_call_hook(type, d) ==
  LET Chosen(popped, fc) ==
        IF fc = JStr(<<"a", "u", "t", "o">>) THEN [popped EXCEPT !.tool_choice = JStr(<<"a", "u", "t", "o">>)]
        ELSE IF fc = JStr(<<"n", "o", "n", "e">>) THEN [popped EXCEPT !.tool_choice = JStr(<<"n", "o", "n", "e">>)]
        ELSE IF fc.t = "obj" /\ \E k \in 1..Len(fc.v) : fc.v[k][1] = NAME_KEY
        THEN [popped EXCEPT !.tool_choice =
                FunctionTool(JObj(<< <<NAME_KEY, DictGet(fc, NAME_KEY, JNull)>> >>))]
        ELSE popped
      Converted(tooled) ==
        IF tooled.function_call.t # "absent"
        THEN Chosen([tooled EXCEPT !.function_call = Absent], tooled.function_call)
        ELSE tooled
  IN IF type \notin {"completion", "acompletion"} THEN d
     ELSE IF d.functions.t # "absent" /\ d.tools.t = "absent"
     THEN Converted([d EXCEPT
                       !.functions = Absent,
                       !.tools = List([k \in 1..Len(d.functions.v) |->
                                         FunctionTool(d.functions.v[k])])])
     ELSE d

\* The request data the hook may be given: functions absent, none, one or
\* two; tools absent or there; function_call absent, "auto", "none", a
\* named function, another string, a dict without a name; tool_choice
\* absent or there.
InitPreCall ==
  LET F == JObj(<< <<NAME_KEY, JStr(<<"f">>)>> >>)
      G == JObj(<< <<NAME_KEY, JStr(<<"g">>)>> >>)
  IN /\ impl = "pre_call"
     /\ call_type \in {"completion", "acompletion", "text_completion", "embeddings"}
     /\ data \in [functions : {Absent, List(<<>>), List(<<F>>), List(<<F, G>>)},
                  tools : {Absent, List(<<FunctionTool(G)>>)},
                  function_call : {Absent, JStr(<<"a", "u", "t", "o">>), JStr(<<"n", "o", "n", "e">>), F,
                                   JStr(<<"r", "e", "q", "u", "i", "r", "e", "d">>), JObj(<<>>)},
                  tool_choice : {Absent, JStr(<<"r", "e", "q", "u", "i", "r", "e", "d">>)}]
     /\ returned = FALSE
     /\ NoRelay
     /\ NoSwitch
     /\ NoResponse
     /\ NoLaunch

\* data = await handler.async_pre_call_hook(..., data, call_type).
AsyncPreCallHook ==
  /\ impl = "pre_call"
  /\ ~returned
  /\ data' = async_pre_call_hook(call_type, data)
  /\ returned' = TRUE
  /\ UNCHANGED <<impl, call_type, events, buffer, switchVars, responseVars,
                 launchVars>>

NextPreCall == AsyncPreCallHook

SpecPreCall == InitPreCall /\ [][NextPreCall]_vars

\* ------------------------------------------------------------------------
\* Controller: POST /launch and POST /evict (src/controller/app.py) with
\* evict_model, kill_process, launch_model and switch_model (process.py)
\* ------------------------------------------------------------------------

\* The requests the controller serves, and the backend that runs on the
\* inference port before any of them.  A backend a request starts is named
\* after the request.
Handlers == {"h1", "h2"}
OLD_BACKEND == "old"

\* What proc.wait(timeout=10) of kill_process can do after proc.terminate():
\* return because the process has exited, raise NoSuchProcess because it was
\* gone already, or raise TimeoutExpired because it still runs.
WaitOutcomes == {"exited", "NoSuchProcess", "TimeoutExpired"}

\* kill_process (lines 92-117) up to its "await asyncio.sleep(1)": the
\* backends left on the port.  After TimeoutExpired the process is killed
\* only if force is set; proc.kill() sends SIGKILL, which no process
\* survives.
kill_process(running, pid, force, waited) ==
  IF waited = "TimeoutExpired" /\ ~force THEN running ELSE running \ {pid}

\* The controller starts; each request is a /launch of a recipe the store
\* has or has not, or an /evict, with force set or not.
InitSwitch ==
  /\ impl = "controller"
  /\ switch_lock = "free"
  /\ handlers \in [Handlers -> [op : {"launch", "evict"}, found : BOOLEAN,
                                force : BOOLEAN, pc : {"start"},
                                current : {None}]]
  /\ \A h \in Handlers : handlers[h].op = "evict" => handlers[h].found
  /\ processes \in {{}, {OLD_BACKEND}}
  /\ NoPreCall /\ NoRelay
  /\ NoResponse
  /\ NoLaunch

\* launch, lines 262-264: the store has no such recipe, 404.
RecipeNotFound(h) ==
  /\ impl = "controller"
  /\ handlers[h].pc = "start"
  /\ handlers[h].op = "launch" /\ ~handlers[h].found
  /\ handlers' = [handlers EXCEPT ![h].pc = "404"]
  /\ UNCHANGED <<impl, switch_lock, processes, call_type, data, returned, events,
                 buffer, responseVars, launchVars>>

\* "async with _switch_lock:" of launch (line 266) and of evict (line 280):
\* the request goes on once the lock is free, and holds it.
AcquireSwitchLock(h) ==
  /\ impl = "controller"
  /\ handlers[h].pc = "start"
  /\ handlers[h].op = "launch" => handlers[h].found
  /\ switch_lock = "free"
  /\ switch_lock' = h
  /\ handlers' = [handlers EXCEPT ![h].pc = "locked"]
  /\ UNCHANGED <<impl, processes, call_type, data, returned, events, buffer,
                 responseVars, launchVars>>

\* evict_model (lines 153-159), called by evict (line 281) and by
\* switch_model (line 164): nothing to do when find_inference_process finds
\* no backend on the port, else kill_process on the one it found.
EvictModel(h) ==
  /\ impl = "controller"
  /\ handlers[h].pc = "locked"
  /\ IF processes = {}
     THEN /\ handlers' = [handlers EXCEPT ![h].pc = "evicted"]
          /\ UNCHANGED processes
     ELSE \E pid \in processes, waited \in WaitOutcomes :
            /\ processes' = kill_process(processes, pid, handlers[h].force, waited)
            /\ handlers' = [handlers EXCEPT ![h].pc = "evicted", ![h].current = pid]
  /\ UNCHANGED <<impl, switch_lock, call_type, data, returned, events, buffer,
                 responseVars, launchVars>>

\* evict, lines 281-282: evict_model has returned, the lock is released and
\* the pid is the answer.
EvictReturns(h) ==
  /\ impl = "controller"
  /\ handlers[h].pc = "evicted"
  /\ handlers[h].op = "evict"
  /\ switch_lock' = "free"
  /\ handlers' = [handlers EXCEPT ![h].pc = "done"]
  /\ UNCHANGED <<impl, processes, call_type, data, returned, events, buffer,
                 responseVars, launchVars>>

\* switch_model, lines 165-166, and launch_model up to its
\* "await asyncio.sleep(3)" (lines 120-142): the new backend is started on
\* the inference port.
LaunchModel(h) ==
  /\ impl = "controller"
  /\ handlers[h].pc = "evicted"
  /\ handlers[h].op = "launch"
  /\ processes' = processes \cup {h}
  /\ handlers' = [handlers EXCEPT ![h].pc = "started"]
  /\ UNCHANGED <<impl, switch_lock, call_type, data, returned, events, buffer,
                 responseVars, launchVars>>

\* launch_model, lines 144-148, and launch, lines 267-274: the new backend
\* has exited early or runs; the lock is released and the result is the
\* answer.
LaunchReturns(h) ==
  /\ impl = "controller"
  /\ handlers[h].pc = "started"
  /\ \E exited \in BOOLEAN :
       /\ processes' = IF exited THEN processes \ {h} ELSE processes
       /\ handlers' = [handlers EXCEPT ![h].pc = IF exited THEN "failed" ELSE "done"]
  /\ switch_lock' = "free"
  /\ UNCHANGED <<impl, call_type, data, returned, events, buffer, responseVars,
                 launchVars>>

NextSwitch ==
  \E h \in Handlers :
    \/ RecipeNotFound(h)
    \/ AcquireSwitchLock(h)
    \/ EvictModel(h)
    \/ EvictReturns(h)
    \/ LaunchModel(h)
    \/ LaunchReturns(h)

SpecSwitch == InitSwitch /\ [][NextSwitch]_vars

\* ------------------------------------------------------------------------
\* Properties
\* ------------------------------------------------------------------------

\* How often p occurs in s, and how often the character c does.
Occurrences(s, p) == Cardinality({k \in 1..Len(s) : StartsAt(s, p, k)})
Count(s, c) == Cardinality({k \in 1..Len(s) : s[k] = c})

\* The characters of s.
Chars(s) == {s[k] : k \in 1..Len(s)}

RECURSIVE Joined(_)

\* The concatenation of a sequence of sequences.
Joined(seqs) == IF seqs = <<>> THEN <<>> ELSE Head(seqs) \o Joined(Tail(seqs))

\* The message came with tool_calls of the upstream's own.
Prepopulated == message.tool_calls = <<UpstreamCall>>

\* Complete-mode tool-call extraction has run once on the upstream's message.
Extracted ==
  /\ Len(hooks) = 1
  /\ hooks[1] \in {"async_post_call_success_hook", "transform_response"}

\* What a client has of a stream: the content deltas and the
\* reasoning_content deltas, each concatenated, and the invocations.
DeliveredContent(deltas) ==
  Joined([k \in 1..Len(deltas) |-> ContentOrEmpty(deltas[k].content)])
DeliveredReasoning(deltas) ==
  Joined([k \in 1..Len(deltas) |-> ContentOrEmpty(deltas[k].reasoning_content)])
DeliveredToolCalls(deltas) == Joined([k \in 1..Len(deltas) |-> deltas[k].tool_calls])

\* Invocations without their ids, which are drawn afresh on every run.
NamesAndArguments(tool_calls) ==
  [k \in 1..Len(tool_calls) |-> <<tool_calls[k].name, tool_calls[k].arguments>>]

\* The final result of a stream.
StreamResult(deltas) ==
  [content |-> DeliveredContent(deltas),
   reasoning_content |-> DeliveredReasoning(deltas),
   tool_calls |-> NamesAndArguments(DeliveredToolCalls(deltas))]

\* The delta a client gets when the whole text comes as one fragment.
OneFragment ==
  LET whole == [content |-> text, reasoning_content |-> None, tool_calls |-> <<>>,
                finish_reason |-> FinishStop]
  IN IF impl = "handler"
     THEN async_post_call_streaming_deployment_hook(EmptyDict, RequestId, whole).delta
     ELSE stream_generator(EmptyDict, ChoiceIndex, whole).delta

\* The result of the implementation's complete-mode transformer on the text.
CompleteResult ==
  LET m == IF impl = "handler"
           THEN async_post_call_success_hook(UpstreamMessage(text, <<>>))
           ELSE transform_response(UpstreamMessage(text, <<>>))
  IN [content |-> ContentOrEmpty(m.content),
      reasoning_content |-> ContentOrEmpty(m.reasoning_content),
      tool_calls |-> NamesAndArguments(m.tool_calls)]

\* The text without the four markup delimiters.
Visible(t) ==
  ReplaceAll(ReplaceAll(ReplaceAll(ReplaceAll(t, TOOL_CLOSE, <<>>, 1),
                                   TOOL_OPEN, <<>>, 1),
                        THINK_CLOSE, <<>>, 1),
             THINK_OPEN, <<>>, 1)

\* The arguments {"a": 1} of JSON_NESTED.
NESTED_ARGUMENTS == JObj(<< <<<<"a">>, JInt(<<"1">>)>> >>)

\* C1: for every message that holds the span of JSON_NESTED (here as its
\* only tool-call markup), complete-mode extraction gives exactly one
\* invocation, with name "n" and arguments {"a": 1}, and the span is not
\* in the resulting content.
C1_NestedSpanExtracted ==
  ( /\ Extracted
    /\ ~Prepopulated
    /\ Contains(text, Span(JSON_NESTED))
    /\ Occurrences(text, TOOL_OPEN) = 1 )
  => /\ Len(message.tool_calls) = 1
     /\ message.tool_calls[1].name = <<"n">>
     /\ Loads(message.tool_calls[1].arguments) =
          JOk(NESTED_ARGUMENTS, Len(message.tool_calls[1].arguments) + 1)
     /\ ~Contains(ContentOrEmpty(message.content), Span(JSON_NESTED))

\* C2: re-chunking invariance: however the text was cut into fragments,
\* the final result of the stream (content deltas concatenated,
\* reasoning_content, tool_calls) is the one of the whole text fed as a
\* single fragment.
C2_RechunkingInvariant ==
  finished => StreamResult(out) = StreamResult(<<OneFragment>>)

\* C3: streaming/complete equivalence: the whole text fed as one fragment
\* gives the reasoning_content, tool_calls and content that the same
\* implementation's complete-mode transformer gives on the text.
C3_StreamEqualsComplete ==
  (finished /\ frags # <<>> /\ frags[1] = text) => StreamResult(out) = CompleteResult

\* C4: when a think span <think>R</think>D is split across fragments,
\* reasoning_content goes out exactly once, on the fragment that completes
\* the closing marker, as the whole of R; no other fragment carries
\* reasoning; and the content of the stream is D.
C4_ReasoningEmittedOnce ==
  LET close == Find(text, THINK_CLOSE, 1)
      closing == MinOr({k \in 1..Len(frags) :
                          Len(Joined(SubSeq(frags, 1, k))) >= close + Len(THINK_CLOSE) - 1}, 0)
  IN ( /\ finished
       /\ StartsWith(text, THINK_OPEN)
       /\ close # 0
       /\ ~Contains(text, TOOL_OPEN)
       /\ Strip(SubSeq(text, Len(THINK_OPEN) + 1, close - 1)) # <<>>
       /\ Len(frags[1]) < close + Len(THINK_CLOSE) - 1 )
     => /\ {k \in 1..Len(out) : Truthy(out[k].reasoning_content)} = {closing}
        /\ out[closing].reasoning_content =
             Strip(SubSeq(text, Len(THINK_OPEN) + 1, close - 1))
        /\ Strip(DeliveredContent(out)) = Strip(From(text, close + Len(THINK_CLOSE)))

\* C5: no character of the raw input is delivered twice: over all deltas
\* of a stream, content and reasoning_content together hold each
\* character at most as often as the fragments received so far do.
C5_NoCharacterDeliveredTwice ==
  \A c \in Chars(text) :
    Count(DeliveredContent(out) \o DeliveredReasoning(out), c) <= Count(Joined(frags), c)

\* C6: conservation of text: when a stream has ended without an
\* invocation, every character of the raw text outside the four markup
\* delimiters (whitespace aside, which trimming may take) has been
\* delivered, as content or as reasoning_content; whether it was
\* delivered only once is C5.
C6_NoVisibleCharacterLost ==
  (finished /\ DeliveredToolCalls(out) = <<>>)
  => \A c \in Chars(Visible(text)) :
       \/ IsSpace(c)
       \/ Count(Visible(text), c)
            <= Count(DeliveredContent(out) \o DeliveredReasoning(out), c)

\* C7: the ids of the tool_calls of one response are pairwise distinct.
C7_IdsPairwiseDistinct ==
  hooks # <<>>
  => \A i, j \in 1..Len(message.tool_calls) :
       i # j => message.tool_calls[i].id # message.tool_calls[j].id

\* C8: complete mode: when an invocation is extracted from a message with
\* no tool_calls of its own, finish_reason is "tool_calls" and content is
\* the text left, null when nothing is left; for a message that is one
\* well-formed JSON span there is one invocation and content is null.
C8_FinishReasonAndContent ==
  (Extracted /\ ~Prepopulated /\ message.tool_calls # <<>>)
  => /\ message.finish_reason = "tool_calls"
     /\ message.content # <<>>
     /\ text \in {Span(JSON_FLAT), Span(JSON_NESTED)}
        => (Len(message.tool_calls) = 1 /\ message.content = None)

\* C9: for a message whose one tool-call span has the body of NOT_JSON
\* (and no think marker), complete mode gives no invocation, leaves
\* finish_reason as it was, takes the tag markup out of content and
\* passes the text around the span through as content.
C9_NotJsonSpanStripped ==
  LET o == Find(text, Span(NOT_JSON), 1)
      content == ContentOrEmpty(message.content)
  IN ( /\ Extracted
       /\ ~Prepopulated
       /\ o # 0
       /\ Occurrences(text, TOOL_OPEN) = 1
       /\ ~Contains(text, THINK_OPEN)
       /\ ~Contains(text, THINK_CLOSE) )
     => /\ message.tool_calls = <<>>
        /\ message.finish_reason = FinishStop
        /\ ~Contains(content, TOOL_OPEN)
        /\ ~Contains(content, TOOL_CLOSE)
        /\ Contains(content, Strip(SubSeq(text, 1, o - 1)))
        /\ Contains(content, Strip(From(text, o + Len(Span(NOT_JSON)))))

\* C10: the opening marker is optional in complete mode: for a message
\* R</think>C with no <think> (and no tool-call markup, R not blank), the
\* first hook sets reasoning_content to R trimmed and content to C trimmed.
C10_OpeningMarkerOptional ==
  LET close == Find(text, THINK_CLOSE, 1)
  IN ( /\ Len(hooks) = 1
       /\ close # 0
       /\ Occurrences(text, THINK_CLOSE) = 1
       /\ ~Contains(text, THINK_OPEN)
       /\ ~Contains(text, TOOL_OPEN)
       /\ Strip(SubSeq(text, 1, close - 1)) # <<>> )
     => /\ message.reasoning_content = Strip(SubSeq(text, 1, close - 1))
        /\ ContentOrEmpty(message.content) = Strip(From(text, close + Len(THINK_CLOSE)))

\* The split the think-span extractor is to make of a complete text: at
\* the first closing marker, an opening marker at the very start taken
\* off the reasoning, both sides trimmed; (None, text) without a closing
\* marker.
SplitAtFirstClose(t) ==
  LET Cut(close) ==
        IF close = 0 THEN <<None, t>>
        ELSE <<Strip(IF StartsWith(t, THINK_OPEN)
                     THEN SubSeq(t, Len(THINK_OPEN) + 1, close - 1)
                     ELSE SubSeq(t, 1, close - 1)),
               Strip(From(t, close + Len(THINK_CLOSE)))>>
  IN Cut(Find(t, THINK_CLOSE, 1))

\* The think-span extractor of the implementation at hand on the text.
ThinkSplit ==
  IF impl = "handler" THEN ParseThinkTags(text) ELSE extract_think_content(text)

\* C11: the think-span extractor splits a complete text once, at the first
\* closing marker: reasoning is what is before it without a leading
\* opening marker, content is what is after it, both trimmed; a second
\* think block stays in the content; a text without a closing marker
\* comes back as (None, text).
C11_SplitOnceAtFirstClose ==
  hooks # <<>> => ThinkSplit = SplitAtFirstClose(text)

\* The text holds none of the four markup delimiters and no bare JSON
\* invocation.
NoMarkup(t) ==
  /\ ~Contains(t, THINK_OPEN)
  /\ ~Contains(t, THINK_CLOSE)
  /\ ~Contains(t, TOOL_OPEN)
  /\ ~Contains(t, TOOL_CLOSE)
  /\ AllMatches("raw_json_pattern", t, 1) = <<>>

\* C12: idempotence of the complete-mode transformer: a hook applied to a
\* message that a hook has already transformed, and whose content holds
\* no markup any more, leaves content, reasoning_content, tool_calls and
\* finish_reason as they are.
C12_Idempotent ==
  [][(hooks # <<>> /\ NoMarkup(ContentOrEmpty(message.content)))
     => message' = message]_vars

\* C12 witness: transform_response has run twice on a message from which
\* the first run extracted an invocation and left text without markup.
C12_Witness ==
  /\ Len(hooks) = 2
  /\ hooks[1] = "transform_response"
  /\ ~Prepopulated
  /\ message.tool_calls # <<>>
  /\ message.content # None
  /\ NoMarkup(message.content)

\* C13: a failure inside the extraction of a stream fragment is caught at
\* the outer boundary: every chunk the upstream sent has been forwarded,
\* a chunk the extraction fails on (no delta, a content that is no
\* string) as it came, and the stream goes on until its terminal chunk.
C13_FailureDegradesToPassThrough ==
  \A q \in DOMAIN requests :
    /\ Len(requests[q].out) = Len(requests[q].sent)
    /\ \A k \in 1..Len(requests[q].sent) :
         requests[q].sent[k].content \in {NoDelta, NotAString}
         => requests[q].out[k] = requests[q].sent[k]
    /\ \/ requests[q].streaming
       \/ requests[q].sent[Len(requests[q].sent)].finish_reason # FinishNone

\* C14: a payload without choices, or whose message has no content, goes
\* through the complete-mode hooks unmodified: no field is added, changed
\* or removed.
C14_MissingFieldsPassThrough ==
  [][(message = NoMessage \/ message.content = Missing) => message' = message]_vars

\* The session key of request q, and the chunk the upstream sent last.
SessionKey(q) == RequestIdOf(requests[q].request_data)
LastSent(r) == r.sent[Len(r.sent)]

\* C15: a stream state is created with the first chunk of a request id,
\* and right after a chunk with a finish_reason has been processed,
\* whatever else it holds, the registry has no entry for that request id.
C15_DestroyedOnFinishReason ==
  [][\A q \in DOMAIN requests :
       Len(requests'[q].sent) > Len(requests[q].sent)
       => /\ LastSent(requests'[q]).finish_reason = FinishNone
             => SessionKey(q) \in DOMAIN stream_buffers'
          /\ LastSent(requests'[q]).finish_reason # FinishNone
             => SessionKey(q) \notin DOMAIN stream_buffers']_vars

RECURSIVE AloneOut(_, _, _)

\* What the streaming hook delivers for the chunks of one request when no
\* other request is in flight.
AloneOut(request_id, chunks, buffers) ==
  LET Hooked(hooked) ==
        <<hooked.delta>> \o AloneOut(request_id, Tail(chunks), hooked.buffers)
  IN IF chunks = <<>> THEN <<>>
     ELSE Hooked(async_post_call_streaming_deployment_hook(
                   buffers, request_id, Head(chunks)))

\* C16: session isolation: however the chunks of two requests interleave,
\* each request is delivered what it would be delivered alone, also when
\* it supplies neither litellm_call_id nor id.
C16_SessionIsolation ==
  impl = "handler"
  => \A q \in DOMAIN requests :
       requests[q].out = AloneOut(SessionKey(q), requests[q].sent, EmptyDict)

\* The flag of the chat template kwargs, and a command that holds the flag
\* followed by a value with every one of the given texts in it.
KwargsFlag == <<"-", "-", "d", "e", "f", "a", "u", "l", "t", "-", "c", "h", "a", "t", "-", "t", "e", "m", "p", "l", "a", "t", "e", "-", "k", "w", "a", "r", "g", "s">>
CommandCarries(c, parts) ==
  \E j \in 1..(Len(c) - 1) :
    /\ c[j] = KwargsFlag
    /\ \A p \in parts : Contains(c[j + 1], p)

\* The budget the thinking mode of a MiniMax-M2.1 recipe is to put in the
\* command: 16000 in conservative mode (32000 for REAP-50), 128000 in
\* aggressive mode, enable_thinking false in disabled mode.
MinimaxBudget(r) ==
  CASE r.thinking_mode = "disabled" -> {<<"e", "n", "a", "b", "l", "e", "_", "t", "h", "i", "n", "k", "i", "n", "g">>, <<"f", "a", "l", "s", "e">>}
    [] r.thinking_mode = "aggressive" -> {<<"m", "a", "x", "_", "t", "h", "i", "n", "k", "i", "n", "g", "_", "t", "o", "k", "e", "n", "s">>, Str(128000)}
    [] r.model_path = <<"M", "i", "n", "i", "M", "a", "x", "A", "I", "/", "M", "i", "n", "i", "M", "a", "x", "-", "M", "2", ".", "1", "-", "R", "E", "A", "P", "-", "5", "0">> ->
         {<<"m", "a", "x", "_", "t", "h", "i", "n", "k", "i", "n", "g", "_", "t", "o", "k", "e", "n", "s">>, Str(32000)}
    [] OTHER -> {<<"m", "a", "x", "_", "t", "h", "i", "n", "k", "i", "n", "g", "_", "t", "o", "k", "e", "n", "s">>, Str(16000)}

\* C17: the command build_vllm_command returns for a MiniMax-M2.1 recipe
\* that sets no budget of its own holds --default-chat-template-kwargs
\* followed by the budget of the recipe's thinking mode.
C17_MinimaxBudgetInCommand ==
  (/\ impl = "launch"
   /\ cmd # <<>>
   /\ IsModel("minimax_m2", ModelId(recipe))
   /\ recipe.served_model_name = None
   /\ recipe.max_thinking_tokens = JNull
   /\ recipe.extra_args = JObj(<<>>)
   /\ recipe.thinking_mode \in {"conservative", "disabled"}
      \/ (/\ recipe.thinking_mode = "aggressive"
          /\ recipe.model_path = <<"M", "i", "n", "i", "M", "a", "x", "A", "I", "/", "M", "i", "n", "i", "M", "a", "x", "-", "M", "2", ".", "1">>))
  => CommandCarries(cmd, MinimaxBudget(recipe))

\* C18: a max_thinking_tokens the recipe sets is what
\* calculate_thinking_tokens returns, under every thinking mode and for
\* every model, and the command built for a MiniMax-M2.1 recipe carries
\* that value in --default-chat-template-kwargs.
C18_ExplicitBudgetWins ==
  (impl = "launch" /\ recipe.max_thinking_tokens # JNull)
  => /\ calculate_thinking_tokens(recipe) = recipe.max_thinking_tokens
     /\ (/\ cmd # <<>>
         /\ IsModel("minimax_m2", ModelId(recipe))
         /\ recipe.max_thinking_tokens # JInt(<<"0">>)
         /\ recipe.extra_args = JObj(<<>>))
        => CommandCarries(cmd, {<<"m", "a", "x", "_", "t", "h", "i", "n", "k", "i", "n", "g", "_", "t", "o", "k", "e", "n", "s">>,
                                recipe.max_thinking_tokens.v})

\* The text the upstream has sent with its first k fragments.
SentUpTo(k) == Joined(SubSeq(frags, 1, k))

\* C19: in the stream of tabby_proxy, a fragment delivered while a think
\* span is open (a <think> has arrived and no </think> yet) carries no
\* tool_calls and no finish_reason "tool_calls".
C19_NoToolScanInsideOpenThink ==
  impl = "tabby" =>
    \A k \in 1..Len(out) :
      (Contains(SentUpTo(k), THINK_OPEN) /\ ~Contains(SentUpTo(k), THINK_CLOSE))
      => (out[k].tool_calls = <<>> /\ out[k].finish_reason # "tool_calls")

RECURSIVE ToolCallSpans(_, _)

\* The number of complete <tool_call>...</tool_call> spans of a text from
\* position i on, one after the other.
ToolCallSpans(t, i) ==
  LET Closed(o) ==
        IF o = 0 \/ Find(t, TOOL_CLOSE, o + Len(TOOL_OPEN)) = 0 THEN 0
        ELSE 1 + ToolCallSpans(t, Find(t, TOOL_CLOSE, o + Len(TOOL_OPEN))
                                  + Len(TOOL_CLOSE))
  IN Closed(Find(t, TOOL_OPEN, i))

\* C20: in the stream of tabby_proxy, once the whole text has been sent,
\* the fragments delivered carry one invocation for every complete
\* tool-call span of the text, each in one fragment and none twice.
C20_EverySpanOnce ==
  (impl = "tabby" /\ rest = <<>>)
  => Len(DeliveredToolCalls(out)) = ToolCallSpans(text, 1)

\* The invocations one grammar alone finds in a text: for tabby_proxy the
\* XML-argument grammar and the JSON-body grammar, for ToolCallHandler the
\* three <tool_call> patterns and the bare-JSON pattern.
GrammarCalls(grammar, t) ==
  LET Matches == AllMatches(grammar, t, 1)
  IN CASE grammar = "xml_pattern" ->
            [k \in 1..Len(Matches) |-> XmlCall(Matches[k])]
       [] grammar = "json_unclosed_pattern" -> JsonCalls(Matches, 1)
       [] grammar = "raw_json_pattern" ->
            NumberCalls([k \in 1..Len(Matches) |-> RawJsonCall(Matches[k])], 1, 1)
       [] OTHER ->
            NumberCalls([k \in 1..Len(Matches) |-> BodyCall(Matches[k])], 1, 1)
Grammars ==
  IF impl = "tabby" THEN {"xml_pattern", "json_unclosed_pattern"}
  ELSE {"pattern1", "pattern2", "pattern3", "raw_json_pattern"}

\* The tool-call extraction of the implementation has run once on a text
\* that has no think marker and came without tool_calls.
ExtractedFromText ==
  /\ Extracted
  /\ text # Missing
  /\ ~Prepopulated
  /\ ~Contains(text, THINK_OPEN)
  /\ ~Contains(text, THINK_CLOSE)

\* C21: the invocations extracted from a text all come from one grammar:
\* they are what one of the grammars finds in the text, or none at all.
C21_GrammarExclusivity ==
  ExtractedFromText
  => \/ message.tool_calls = <<>>
     \/ \E grammar \in Grammars :
          NamesAndArguments(message.tool_calls)
            = NamesAndArguments(GrammarCalls(grammar, Strip(text)))

\* A span body that does not parse as a JSON object, or has no name.
Unparseable(body) ==
  LET Data(loaded) ==
        \/ ~loaded.ok
        \/ loaded.val.t # "obj"
        \/ ~JTruthy(DictGet(loaded.val, NAME_KEY, JStr(<<>>)))
  IN Data(Loads(Strip(body)))

\* C22: when the paired-tag grammar of ToolCallHandler._parse_tool_calls
\* finds spans in a text but every body is unparseable, the cascade goes
\* on: the invocations the bare-JSON grammar finds in the text are the
\* ones returned.
C22_CascadeFallThrough ==
  (/\ impl = "handler"
   /\ ExtractedFromText
   /\ LooksLikeToolCall(text)
   /\ AllMatches("pattern1", Strip(text), 1) # <<>>
   /\ \A k \in 1..Len(AllMatches("pattern1", Strip(text), 1)) :
        Unparseable(AllMatches("pattern1", Strip(text), 1)[k].g1)
   /\ GrammarCalls("raw_json_pattern", Strip(text)) # <<>>)
  => NamesAndArguments(message.tool_calls)
       = NamesAndArguments(GrammarCalls("raw_json_pattern", Strip(text)))

RECURSIVE WellFormedNames(_, _)

\* The names of the well-formed ones among the paired-tag spans of a
\* text, in text order.
WellFormedNames(spans, k) ==
  IF k > Len(spans) THEN <<>>
  ELSE (IF Unparseable(spans[k].g1) THEN <<>>
        ELSE <<TextOf(DictGet(Loads(Strip(spans[k].g1)).val, NAME_KEY, JStr(<<>>)))>>)
       \o WellFormedNames(spans, k + 1)

\* C23: from a text whose opening markers all belong to paired-tag spans
\* with a body in braces, extraction returns one invocation for every
\* well-formed span, in text order, and none for the others.
C23_MalformedSiblingSkipped ==
  (/\ ExtractedFromText
   /\ AllMatches("pattern1", Strip(text), 1) # <<>>
   /\ Occurrences(text, TOOL_OPEN) = Len(AllMatches("pattern1", Strip(text), 1))
   /\ \A k \in 1..Len(AllMatches("pattern1", Strip(text), 1)) :
        StartsWith(Strip(AllMatches("pattern1", Strip(text), 1)[k].g1), <<"{">>))
  => [k \in 1..Len(message.tool_calls) |-> message.tool_calls[k].name]
       = WellFormedNames(AllMatches("pattern1", Strip(text), 1), 1)

\* The session of the stream at ToolCallHandler, and its phase: NORMAL,
\* THINKING after an opening marker, THINK_DONE after the closing one.
Session == stream_buffers[RequestId]
Phase(buf) ==
  IF buf.think_complete THEN "THINK_DONE"
  ELSE IF buf.in_thinking THEN "THINKING" ELSE "NORMAL"

\* The k-th fragment is the first with which the text sent holds </think>.
FirstClose(k) ==
  /\ Contains(SentUpTo(k), THINK_CLOSE)
  /\ ~Contains(SentUpTo(k - 1), THINK_CLOSE)

\* C24: the output of the fragment that first brings </think> into the
\* session buffer of ToolCallHandler carries as reasoning_content the
\* trimmed text before the marker, without a leading <think>, and as
\* content the trimmed text after it; the session is then in THINK_DONE
\* with reasoning_emitted true.
C24_ThinkCompletion ==
  impl = "handler" =>
    \A k \in 1..Len(out) :
      FirstClose(k) =>
        /\ ContentOrEmpty(out[k].reasoning_content) = SplitAtFirstClose(SentUpTo(k))[1]
        /\ ContentOrEmpty(out[k].content) = SplitAtFirstClose(SentUpTo(k))[2]
        /\ (k = Len(out) /\ RequestId \in DOMAIN stream_buffers)
           => (Phase(Session) = "THINK_DONE" /\ Session.reasoning_emitted)

\* C24, amended: as C24, but reasoning_emitted becomes true exactly when
\* the text before the marker is not empty; with an empty one the session
\* goes to THINK_DONE with reasoning_emitted still false and no
\* reasoning_content on the output.
C24_ThinkCompletionNonEmpty ==
  impl = "handler" =>
    \A k \in 1..Len(out) :
      FirstClose(k) =>
        /\ ContentOrEmpty(out[k].reasoning_content) = SplitAtFirstClose(SentUpTo(k))[1]
        /\ ContentOrEmpty(out[k].content) = SplitAtFirstClose(SentUpTo(k))[2]
        /\ (k = Len(out) /\ RequestId \in DOMAIN stream_buffers)
           => /\ Phase(Session) = "THINK_DONE"
              /\ Session.reasoning_emitted = (SplitAtFirstClose(SentUpTo(k))[1] # <<>>)

\* C24 witness: the second fragment of a stream at ToolCallHandler has
\* brought the first </think>; its output carries reasoning and content,
\* and the session is in THINK_DONE.
C24_Witness ==
  /\ impl = "handler"
  /\ Len(out) = 2
  /\ FirstClose(2)
  /\ RequestId \in DOMAIN stream_buffers
  /\ Phase(Session) = "THINK_DONE"
  /\ Session.reasoning_emitted
  /\ Truthy(out[2].reasoning_content)
  /\ Truthy(out[2].content)

\* C25: at ToolCallHandler, a fragment that leaves the session in
\* THINKING (a <think> in the buffer and no </think>) is delivered with
\* no content and with its text, less any <think>, as reasoning_content;
\* and while no </think> has come, nothing of the text from the opening
\* marker on has been delivered as content.
C25_ThinkingWithheld ==
  impl = "handler" =>
    \A k \in 1..Len(out) :
      /\ (/\ frags[k] # <<>>
          /\ Contains(SentUpTo(k), THINK_OPEN)
          /\ ~Contains(SentUpTo(k), THINK_CLOSE))
         => /\ out[k].content = None
            /\ out[k].reasoning_content = ReplaceAll(frags[k], THINK_OPEN, <<>>, 1)
      /\ (Contains(text, THINK_OPEN) /\ ~Contains(SentUpTo(k), THINK_CLOSE))
         => Len(DeliveredContent(SubSeq(out, 1, k))) < Find(text, THINK_OPEN, 1)

\* The session a chunk finds at ToolCallHandler: the one of the request,
\* or a new one.
SessionBefore ==
  IF RequestId \in DOMAIN stream_buffers THEN Session ELSE NewStreamBuffer

\* The step delivers a fragment with text at ToolCallHandler.
HandlerDelivers ==
  /\ impl = "handler"
  /\ Len(out') = Len(out) + 1
  /\ frags'[Len(frags')] # <<>>

\* C26: a fragment that finds its session in THINK_DONE, or that finds it
\* in NORMAL and leaves the buffer without <think> and </think>, is
\* delivered with its own content and no reasoning_content; after
\* reasoning has been emitted no fragment carries reasoning_content.
C26_PassThrough ==
  [][(/\ HandlerDelivers
      /\ \/ Phase(SessionBefore) = "THINK_DONE"
         \/ SessionBefore.reasoning_emitted
         \/ /\ Phase(SessionBefore) = "NORMAL"
            /\ ~Contains(SessionBefore.buffer \o frags'[Len(frags')], THINK_OPEN)
            /\ ~Contains(SessionBefore.buffer \o frags'[Len(frags')], THINK_CLOSE))
     => /\ out'[Len(out')].content = frags'[Len(frags')]
        /\ out'[Len(out')].reasoning_content = None]_vars

\* C26 witness: a session that has emitted its reasoning was sent one more
\* think marker, and the fragment came out as it went in.
C26_Witness ==
  /\ impl = "handler"
  /\ Len(out) = 2
  /\ Truthy(out[1].reasoning_content)
  /\ Contains(SentUpTo(1), THINK_CLOSE)
  /\ frags[2] \in {THINK_OPEN, THINK_CLOSE}
  /\ out[2].content = frags[2]
  /\ out[2].reasoning_content = None
  /\ RequestId \in DOMAIN stream_buffers
  /\ Session.reasoning_emitted

\* One phase comes after another, or is the same.
Forward(p, q) ==
  \/ q = p
  \/ <<p, q>> \in {<<"NORMAL", "THINKING">>, <<"THINKING", "THINK_DONE">>,
                   <<"NORMAL", "THINK_DONE">>}

\* C27: a new session of ToolCallHandler is in NORMAL with an empty buffer
\* and reasoning_emitted false; as long as the session is there, every
\* chunk moves its phase forward or leaves it, THINK_DONE is not left,
\* reasoning_emitted is not reset and is true in THINK_DONE only.
C27_PhaseDiscipline ==
  [][(impl = "handler" /\ RequestId \in DOMAIN stream_buffers')
     => /\ RequestId \notin DOMAIN stream_buffers
           => /\ Phase(SessionBefore) = "NORMAL"
              /\ SessionBefore.buffer = <<>>
              /\ ~SessionBefore.reasoning_emitted
        /\ Forward(Phase(SessionBefore), Phase(stream_buffers'[RequestId]))
        /\ SessionBefore.reasoning_emitted => stream_buffers'[RequestId].reasoning_emitted
        /\ stream_buffers'[RequestId].reasoning_emitted
           => Phase(stream_buffers'[RequestId]) = "THINK_DONE"]_vars

\* C27 witness: a session went from NORMAL to THINKING with its first
\* fragment and to THINK_DONE with its second, which emitted the reasoning.
C27_Witness ==
  /\ impl = "handler"
  /\ Len(out) = 2
  /\ Contains(SentUpTo(1), THINK_OPEN)
  /\ ~Contains(SentUpTo(1), THINK_CLOSE)
  /\ RequestId \in DOMAIN stream_buffers
  /\ Phase(Session) = "THINK_DONE"
  /\ Session.reasoning_emitted

\* The k-th fragment is the first with which the text sent holds a whole
\* tool-call span.
FirstToolClose(k) ==
  /\ ToolCallSpans(SentUpTo(k), 1) > 0
  /\ ToolCallSpans(SentUpTo(k - 1), 1) = 0

\* C28: every fragment sent has one output, at its own place; the
\* reasoning goes out with the fragment that first brings the whole
\* </think> and with none after it, and the invocation with the fragment
\* that first brings the whole </tool_call> and with none before it.
C28_PayloadsInPlace ==
  /\ Len(out) = Len(frags)
  /\ \A k \in 1..Len(out) :
       /\ (FirstClose(k) /\ SplitAtFirstClose(SentUpTo(k))[1] # <<>>)
          => /\ Truthy(out[k].reasoning_content)
             /\ \A j \in (k + 1)..Len(out) : ~Truthy(out[j].reasoning_content)
       /\ FirstToolClose(k)
          => /\ out[k].tool_calls # <<>>
             /\ \A j \in 1..(k - 1) : out[j].tool_calls = <<>>

\* Where the span that the whole text leaves open begins: the place of the
\* first opening marker with no closing marker after it, or 0.
OpenSpanAt(t, opening, closing) ==
  MinOr({k \in 1..Len(t) : StartsAt(t, opening, k) /\ Find(t, closing, k) = 0}, 0)

\* The text in front of that span, when the span is there and the text in
\* front of it holds no markup.
PlainBefore(t, opening, closing) ==
  SubSeq(t, 1, OpenSpanAt(t, opening, closing) - 1)
LeftOpen(t, opening, closing) ==
  /\ OpenSpanAt(t, opening, closing) > 0
  /\ NoMarkup(PlainBefore(t, opening, closing))

\* C29: once a stream has ended with a think span or a tool-call span
\* still open, the content the client was given holds nothing of the span:
\* it is no more than the text in front of the span's opening marker.
C29_NoLeakOfOpenSpan ==
  finished =>
    /\ LeftOpen(text, THINK_OPEN, THINK_CLOSE)
       => StartsWith(PlainBefore(text, THINK_OPEN, THINK_CLOSE), DeliveredContent(out))
    /\ LeftOpen(text, TOOL_OPEN, TOOL_CLOSE)
       => StartsWith(PlainBefore(text, TOOL_OPEN, TOOL_CLOSE), DeliveredContent(out))

\* C30: the content of a message that a complete-mode hook has transformed
\* holds no think marker, opening or closing, and no whole tool-call span,
\* whenever the text it was given left no think span open.
C30_NoMarkupAfterTransform ==
  (hooks # <<>> /\ text # Missing /\ OpenSpanAt(text, THINK_OPEN, THINK_CLOSE) = 0)
    => /\ ~Contains(ContentOrEmpty(message.content), THINK_OPEN)
       /\ ~Contains(ContentOrEmpty(message.content), THINK_CLOSE)
       /\ ToolCallSpans(ContentOrEmpty(message.content), 1) = 0

\* C31: from a text without any marker that holds n >= 1 bare JSON
\* invocations, anywhere in it, the success hook of ToolCallHandler
\* attaches n invocations and sets finish_reason to "tool_calls".
C31_BareJsonAnywhere ==
  (/\ Len(hooks) = 1
   /\ hooks[1] = "async_post_call_success_hook"
   /\ text # Missing
   /\ ~Prepopulated
   /\ ~Contains(text, THINK_OPEN) /\ ~Contains(text, THINK_CLOSE)
   /\ ~Contains(text, TOOL_OPEN) /\ ~Contains(text, TOOL_CLOSE)
   /\ Occurrences(text, JSON_NESTED) >= 1)
  => /\ Len(message.tool_calls) = Occurrences(text, JSON_NESTED)
     /\ message.finish_reason = "tool_calls"

\* The JSON bodies of the tool-call spans of the inputs.
JsonBodies == {JSON_NESTED, JSON_FLAT, JSON_KEYS, NOT_JSON}

\* What a JSON body is to yield: nothing when it does not parse to an
\* object with a non-empty name, else the name with the arguments as
\* given, or with the other top-level keys when there is no arguments key.
BodyYield(body) ==
  LET HasArguments(obj) == \E k \in 1..Len(obj.v) : obj.v[k][1] = ARGUMENTS_KEY
      Yield(obj) ==
        IF ~JTruthy(DictGet(obj, NAME_KEY, JStr(<<>>))) THEN <<>>
        ELSE << <<TextOf(DictGet(obj, NAME_KEY, JStr(<<>>))),
                  ArgumentsString(IF HasArguments(obj)
                                  THEN DictGet(obj, ARGUMENTS_KEY, JObj(<<>>))
                                  ELSE WithoutName(obj))>> >>
      Parsed(loaded) ==
        IF ~loaded.ok \/ loaded.val.t # "obj" THEN <<>> ELSE Yield(loaded.val)
  IN Parsed(Loads(body))

\* C32: from a text that is one tool-call span with a JSON body, the
\* extraction yields an invocation exactly when the body parses and has a
\* non-empty name; its arguments are the body's arguments when it has
\* that key, and the body's keys other than name when it has not.
C32_BodyToInvocation ==
  ExtractedFromText
  => \A body \in JsonBodies :
       text = Span(body)
       => NamesAndArguments(message.tool_calls) = BodyYield(body)

\* The cap a session's buffer is to stay under, in characters.
BufferCap == 16

\* C33: the buffer of a stream session never holds more than the cap:
\* neither the buffer of the ToolCallHandler session nor the text
\* stream_generator has accumulated for the choice.
C33_BoundedBuffer ==
  /\ RequestId \in DOMAIN stream_buffers
     => Len(stream_buffers[RequestId].buffer) <= BufferCap
  /\ ChoiceIndex \in DOMAIN accumulated_content
     => Len(accumulated_content[ChoiceIndex]) <= BufferCap

\* The tools entry that a function is to become, and the tool_choice that
\* names a function.
ToolEntry(f) == JObj(<< <<<<"t", "y", "p", "e">>, JStr(<<"f", "u", "n", "c", "t", "i", "o", "n">>)>>, <<<<"f", "u", "n", "c", "t", "i", "o", "n">>, f>> >>)
NamedChoice(name) == ToolEntry(JObj(<< <<NAME_KEY, name>> >>))

\* The hook is given a completion with functions and without tools.
ToBeConverted ==
  /\ call_type \in {"completion", "acompletion"}
  /\ data.functions.t = "list"
  /\ data.tools.t = "absent"

\* C34: async_pre_call_hook, given a completion with functions and
\* without tools, returns data without functions and function_call, with
\* one tools entry per function in their order, and with tool_choice
\* "auto", "none" or the named function as function_call said; given
\* anything else it returns the data unchanged.
C34_FunctionsToTools ==
  [][(impl = "pre_call" /\ returned')
     => IF ToBeConverted
        THEN /\ data'.functions = Absent
             /\ data'.function_call = Absent
             /\ data'.tools.t = "list"
             /\ Len(data'.tools.v) = Len(data.functions.v)
             /\ \A k \in 1..Len(data.functions.v) :
                  data'.tools.v[k] = ToolEntry(data.functions.v[k])
             /\ data.function_call = JStr(<<"a", "u", "t", "o">>) => data'.tool_choice = JStr(<<"a", "u", "t", "o">>)
             /\ data.function_call = JStr(<<"n", "o", "n", "e">>) => data'.tool_choice = JStr(<<"n", "o", "n", "e">>)
             /\ (data.function_call.t = "obj" /\ data.function_call.v # <<>>)
                => data'.tool_choice = NamedChoice(data.function_call.v[1][2])
        ELSE data' = data]_vars

\* C34 witness: the hook has returned data in which two functions have
\* become two tools and tool_choice names a function.
C34_Witness ==
  /\ returned
  /\ data.functions = Absent
  /\ data.function_call = Absent
  /\ data.tools.t = "list"
  /\ Len(data.tools.v) = 2
  /\ data.tools.v[1] = ToolEntry(JObj(<< <<NAME_KEY, JStr(<<"f">>)>> >>))
  /\ data.tool_choice = NamedChoice(JStr(<<"f">>))

\* C35: a complete-mode hook applied to a message that carries
\* invocations already leaves those invocations and the finish_reason as
\* they are, whatever the content holds.
C35_PrepopulatedKept ==
  [][(hooks' # hooks /\ message.tool_calls # <<>>)
     => /\ message'.tool_calls = message.tool_calls
        /\ message'.finish_reason = message.finish_reason]_vars

\* C35 witness: a hook that extracts invocations has run on a message that
\* came with an invocation of the upstream and with a JSON tool-call span
\* in its content, and the message still has the upstream's invocation.
C35_Witness ==
  /\ Extracted
  /\ text # Missing
  /\ Contains(text, Span(JSON_FLAT))
  /\ ~Contains(text, THINK_CLOSE)
  /\ message.tool_calls = <<UpstreamCall>>
  /\ message.finish_reason = FinishStop

\* The requests that have not delivered their terminal chunk yet.
Unfinished ==
  {q \in DOMAIN requests :
     \A k \in 1..Len(requests[q].sent) : requests[q].sent[k].finish_reason = FinishNone}

\* C36: the registry of ToolCallHandler never holds more entries than
\* there are requests that have not delivered their terminal chunk, and
\* none under the id of a request that has.
C36_NoEntryOutlivesRequest ==
  impl = "handler"
  => /\ Cardinality(DOMAIN stream_buffers) <= Cardinality(Unfinished)
     /\ \A q \in DOMAIN requests \ Unfinished :
          (\A p \in Unfinished : SessionKey(p) # SessionKey(q))
          => SessionKey(q) \notin DOMAIN stream_buffers

\* The content the upstream put in a chunk for the choice of index i, and
\* the text the upstream has sent for that choice with the first k chunks.
ContentOf(chunk, i) ==
  IF \E p \in 1..Len(chunk) : chunk[p].index = i
  THEN chunk[CHOOSE p \in 1..Len(chunk) : chunk[p].index = i].delta.content
  ELSE <<>>
SentTo(i, k) == Joined([j \in 1..k |-> ContentOf(frags[j], i)])

\* C37: in a tabby_proxy stream the reasoning_content on the delta of a
\* choice comes from the text of that choice's own index, and the chunk
\* with which the text of a choice first holds a whole think span carries
\* its reasoning on the delta of that choice.
C37_PerChoiceIsolation ==
  \A k \in 1..Len(out) : \A p \in 1..Len(out[k]) :
    /\ Truthy(out[k][p].delta.reasoning_content)
       => /\ Contains(SentTo(out[k][p].index, k), THINK_OPEN)
          /\ Contains(SentTo(out[k][p].index, k), THINK_CLOSE)
    /\ (/\ StartsWith(SentTo(out[k][p].index, k), THINK_OPEN)
        /\ Contains(SentTo(out[k][p].index, k), THINK_CLOSE)
        /\ ~Contains(SentTo(out[k][p].index, k - 1), THINK_CLOSE))
       => Truthy(out[k][p].delta.reasoning_content)

\* What the relay is to send downstream for the data event with this
\* payload: [DONE] as [DONE], a payload that parses as JSON transformed,
\* which leaves a payload without choices as json.dumps writes it, and any
\* other payload as it came.
Forwarded(payload) ==
  LET Parsed(chunk_data) ==
        IF chunk_data.ok THEN Dumps(chunk_data.val) ELSE payload
  IN IF payload = <<"[", "D", "O", "N", "E", "]">> THEN DataEvent(payload)
     ELSE DataEvent(Parsed(Loads(payload)))
ForwardedAll == [k \in 1..Len(events) |-> Forwarded(events[k])]

\* C38: the relay sends downstream nothing but the upstream's events, each
\* once and in the upstream's order, and once the upstream has closed the
\* stream it has sent every one of them, wherever the network chunks were
\* cut and whether or not the last event was ended by a blank line.
C38_RelayComplete ==
  impl = "relay"
  => /\ Len(out) <= Len(events)
     /\ out = SubSeq(ForwardedAll, 1, Len(out))
     /\ finished => out = ForwardedAll

\* A request is inside switch_model or evict_model: it has entered the
\* "async with" block and has not left it.
InSequence(h) == handlers[h].pc \in {"locked", "evicted", "started"}

\* The backends a step starts.
Started == processes' \ processes

\* C39: model switches are serialized.  A request runs switch_model or
\* evict_model only while it holds _switch_lock, so no two requests are
\* inside an evict-or-launch sequence at once; and when a launch starts the
\* new backend, the eviction is complete: no backend is left on the
\* inference port.
C39_SwitchesSerialized ==
  /\ [](impl = "controller"
        => /\ \A h \in DOMAIN handlers : InSequence(h) => switch_lock = h
           /\ Cardinality({h \in DOMAIN handlers : InSequence(h)}) <= 1)
  /\ [][impl = "controller" /\ Started # {} => processes = {}]_vars
====
